---- MODULE Spec2Model ----
(***************************************************************************)
(* DORA: the configuration schema (src/src/dora/schema.py), the pipeline   *)
(* orchestrator (src/src/dora/analyzer.py) and report assembly             *)
(* (src/src/dora/reporting/generator.py) as a state machine.               *)
(*                                                                         *)
(* One process invocation builds a pipeline of AnalysisStep objects        *)
(* through the pydantic constructors, constructs an Analyzer and calls     *)
(* run().  The output directory lives on disk and outlives the process,    *)
(* so a later invocation finds what an earlier one left there: Spec is one *)
(* invocation on a new output directory, SpecRerun lets invocations follow *)
(* one another on the same directory.                                      *)
(***************************************************************************)
EXTENDS Integers, Sequences, FiniteSets, TLC

VARIABLES
    pc,             \* position of the control flow (see PcValues)
    runNo,          \* number of the current process invocation
    pipeline,       \* config.analysis_pipeline: sequence of AnalysisStep
    target,         \* config.target_variable
    lastCtor,       \* the last pydantic construction that was attempted
    i,              \* index of the step the loop of run() is at
    report_data,    \* Analyzer.report_data: mapping key -> payload
    charts_dir,     \* whether <output_dir>/charts exists
    charts,         \* chart file name -> invocation that wrote it (0: absent)
    report_file,    \* invocation that wrote eda_report.html (0: absent)
    events,         \* renderer calls, returns and raises, log records, in order
    assembled,      \* the arguments create_report was called with, in order
    error,          \* the exception that left run(), or NoError
    heap,           \* the pandas Series objects that exist, by reference
    red,            \* the calls of the cardinality reducer and their results
    cli,            \* the CLI run command: its inputs, position and exit code
    df,             \* the dataset: its columns in order, each with its kind
    nrun,           \* how many times run() was entered on this Analyzer
    call,           \* a function called on its own: arguments and result
    app             \* the web front end: its widgets, position and session

vars == <<pc, runNo, pipeline, target, lastCtor, i, report_data, charts_dir,
          charts, report_file, events, assembled, error,
          heap, red, cli, df, nrun, call, app>>

\* the variables of the pipeline orchestrator
coreVars == <<pc, runNo, pipeline, target, lastCtor, i, report_data,
              charts_dir, charts, report_file, events, assembled, error>>

----------------------------------------------------------------------------
(* Bounds *)

\* longest pipeline that is built
MaxSteps == 2
\* number of process invocations against the same output directory
MaxRuns == 2
\* largest max_categories a caller passes
MaxCat == 1

----------------------------------------------------------------------------
(* Python values *)

\* Python's None for an Optional[...Step] field
None == [tag |-> "None"]
\* Python's None for Optional[str]
NoneStr == "<None>"
\* bool(s) of an Optional[str]: None and "" are falsy
Truthy(s) == s # NoneStr /\ s # ""

\* the values a caller passes as max_categories
CatInputs == (-1)..MaxCat
\* the values a caller passes as target_variable
TargetInputs == {NoneStr, "", "charges"}

Kinds == <<"profile", "univariate", "bivariate", "multivariate">>
KindSet == {Kinds[k] : k \in 1..4}

\* the ReportData key of each step kind
KeyOf(kind) ==
    CASE kind = "profile" -> "profile"
      [] kind = "univariate" -> "univariate_plots"
      [] kind = "bivariate" -> "bivariate_plots"
      [] kind = "multivariate" -> "multivariate_plots"
StepKeys == {KeyOf(k) : k \in KindSet}

Put_setdefault(d, k, v) ==
    [x \in DOMAIN d \cup {k} |-> IF x \in DOMAIN d THEN d[x] ELSE v]
\* d[k] = v of a Python dict
Put(d, k, v) == [x \in DOMAIN d \cup {k} |-> IF x = k THEN v ELSE d[x]]

----------------------------------------------------------------------------
(* schema.py: the pydantic models.  A constructor returns [ok, value]:    *)
(* ok = FALSE is a ValidationError.                                        *)

Rejected == [ok |-> FALSE, value |-> None]
Accepted(v) == [ok |-> TRUE, value |-> v]

ProfileStep(enabled) ==
    Accepted([tag |-> "ProfileStep", enabled |-> enabled])

validate_max_categories_lt(v) == v >= 0
\* field_validator("max_categories"): TRUE when v is returned, FALSE when
\* ValueError is raised
validate_max_categories(v) == ~(v <= 0)

UnivariateStep(enabled, max_categories) ==
    IF validate_max_categories(max_categories)
    THEN Accepted([tag |-> "UnivariateStep", enabled |-> enabled,
                   max_categories |-> max_categories])
    ELSE Rejected

BivariateStep(enabled, target_centric, max_categories) ==
    IF validate_max_categories(max_categories)
    THEN Accepted([tag |-> "BivariateStep", enabled |-> enabled,
                   target_centric |-> target_centric,
                   max_categories |-> max_categories])
    ELSE Rejected

MultivariateStep(enabled) ==
    Accepted([tag |-> "MultivariateStep", enabled |-> enabled])

\* count = sum(1 for f in fields if f is not None)
PopulatedCount(p, u, b, m) ==
    (IF p # None THEN 1 ELSE 0) + (IF u # None THEN 1 ELSE 0)
    + (IF b # None THEN 1 ELSE 0) + (IF m # None THEN 1 ELSE 0)

check_exactly_one_field_atmost(p, u, b, m) == ~(PopulatedCount(p, u, b, m) > 1)
\* model_validator(mode="after"): TRUE when self is returned, FALSE when
\* ValueError is raised
check_exactly_one_field(p, u, b, m) == ~(PopulatedCount(p, u, b, m) # 1)

AnalysisStep(p, u, b, m) ==
    IF check_exactly_one_field(p, u, b, m)
    THEN Accepted([tag |-> "AnalysisStep", profile |-> p, univariate |-> u,
                   bivariate |-> b, multivariate |-> m])
    ELSE Rejected

\* what a caller may pass for each field: nothing, or the arguments of the
\* sub-model
ProfileArgs == {None} \cup {[enabled |-> e] : e \in BOOLEAN}
UnivariateArgs ==
    {None} \cup {[enabled |-> e, max_categories |-> c] :
                    e \in BOOLEAN, c \in CatInputs}
BivariateArgs ==
    {None} \cup {[enabled |-> e, target_centric |-> t, max_categories |-> c] :
                    e \in BOOLEAN, t \in BOOLEAN, c \in CatInputs}
MultivariateArgs == {None} \cup {[enabled |-> e] : e \in BOOLEAN}

\* the sub-model built from the arguments (None stays None)
BuildProfile(a) == IF a = None THEN Accepted(None) ELSE ProfileStep(a.enabled)
BuildUnivariate(a) ==
    IF a = None THEN Accepted(None)
    ELSE UnivariateStep(a.enabled, a.max_categories)
BuildBivariate(a) ==
    IF a = None THEN Accepted(None)
    ELSE BivariateStep(a.enabled, a.target_centric, a.max_categories)
BuildMultivariate(a) ==
    IF a = None THEN Accepted(None) ELSE MultivariateStep(a.enabled)

NoCtor == [cls |-> "none", ok |-> TRUE, arg |-> None]
NoError == "none"

----------------------------------------------------------------------------
\* no Series exists and no reducer call was made
NoReducer == heap = <<>> /\ red = [pc |-> "none"]
\* the CLI command is not what runs
NoCli == cli = [pc |-> "none"]
\* the dataset is not looked into: what a renderer does with it is open
NoData == df = <<>> /\ nrun = 0
\* no function is called on its own
NoCall == call = [pc |-> "none"]
NoApp == app = [pc |-> "none"]

Init ==
    /\ NoReducer
    /\ NoCli
    /\ NoData
    /\ NoCall
    /\ NoApp
    /\ pc = "config"
    /\ runNo = 1
    /\ pipeline = <<>>
    /\ target = NoneStr
    /\ lastCtor = NoCtor
    /\ i = 0
    /\ report_data = <<>>
    /\ charts_dir = FALSE
    /\ charts = [f \in {} |-> 0]
    /\ report_file = 0
    /\ events = <<>>
    /\ assembled = <<>>
    /\ error = NoError

----------------------------------------------------------------------------
(* Building the configuration: the caller constructs one AnalysisStep and *)
(* appends it to the pipeline (main.py create_config_interactively, or    *)
(* the Config constructor in config_loader.py).  A ValidationError ends   *)
(* the invocation before any Analyzer exists.                             *)

\* the first sub-model, in field order, whose construction fails
FirstRejected(pa, ua, ba, ma) ==
    IF ~BuildProfile(pa).ok THEN [cls |-> "ProfileStep", arg |-> pa]
    ELSE IF ~BuildUnivariate(ua).ok THEN [cls |-> "UnivariateStep", arg |-> ua]
    ELSE IF ~BuildBivariate(ba).ok THEN [cls |-> "BivariateStep", arg |-> ba]
    ELSE [cls |-> "MultivariateStep", arg |-> ma]

SubModelsOk(pa, ua, ba, ma) ==
    /\ BuildProfile(pa).ok
    /\ BuildUnivariate(ua).ok
    /\ BuildBivariate(ba).ok
    /\ BuildMultivariate(ma).ok

\* the AnalysisStep constructor applied to the built sub-models
BuildStep(pa, ua, ba, ma) ==
    AnalysisStep(BuildProfile(pa).value, BuildUnivariate(ua).value,
                 BuildBivariate(ba).value, BuildMultivariate(ma).value)

Building == pc = "config" /\ Len(pipeline) < MaxSteps

\* a sub-model's field validator raises
RejectSubModel ==
    /\ Building
    /\ \E pa \in ProfileArgs, ua \in UnivariateArgs,
          ba \in BivariateArgs, ma \in MultivariateArgs :
          /\ ~SubModelsOk(pa, ua, ba, ma)
          /\ lastCtor' = [cls |-> FirstRejected(pa, ua, ba, ma).cls,
                          ok |-> FALSE,
                          arg |-> FirstRejected(pa, ua, ba, ma).arg]
    /\ pc' = "rejected"
    /\ UNCHANGED <<runNo, pipeline, target, i, report_data, charts_dir,
                   charts, report_file, events, assembled, error>>
    /\ UNCHANGED <<heap, red, cli, df, nrun, call, app>>

\* the sub-models are built, AnalysisStep's model validator raises
RejectAnalysisStep ==
    /\ Building
    /\ \E pa \in ProfileArgs, ua \in UnivariateArgs,
          ba \in BivariateArgs, ma \in MultivariateArgs :
          /\ SubModelsOk(pa, ua, ba, ma)
          /\ ~BuildStep(pa, ua, ba, ma).ok
          /\ lastCtor' = [cls |-> "AnalysisStep", ok |-> FALSE,
                          arg |-> [profile |-> BuildProfile(pa).value,
                                   univariate |-> BuildUnivariate(ua).value,
                                   bivariate |-> BuildBivariate(ba).value,
                                   multivariate |-> BuildMultivariate(ma).value]]
    /\ pc' = "rejected"
    /\ UNCHANGED <<runNo, pipeline, target, i, report_data, charts_dir,
                   charts, report_file, events, assembled, error>>
    /\ UNCHANGED <<heap, red, cli, df, nrun, call, app>>

\* the step is constructed and appended to the pipeline
AppendStep ==
    /\ Building
    /\ \E pa \in ProfileArgs, ua \in UnivariateArgs,
          ba \in BivariateArgs, ma \in MultivariateArgs :
          /\ SubModelsOk(pa, ua, ba, ma)
          /\ BuildStep(pa, ua, ba, ma).ok
          /\ pipeline' = Append(pipeline, BuildStep(pa, ua, ba, ma).value)
          /\ lastCtor' = [cls |-> "AnalysisStep", ok |-> TRUE,
                          arg |-> [profile |-> BuildProfile(pa).value,
                                   univariate |-> BuildUnivariate(ua).value,
                                   bivariate |-> BuildBivariate(ba).value,
                                   multivariate |-> BuildMultivariate(ma).value]]
    /\ UNCHANGED <<pc, runNo, target, i, report_data, charts_dir,
                   charts, report_file, events, assembled, error>>
    /\ UNCHANGED <<heap, red, cli, df, nrun, call, app>>

----------------------------------------------------------------------------
(* analyzer.py *)

ReportTitle == "EDA Report"

\* Analyzer.__init__ on Config(target_variable=t, analysis_pipeline=pipeline)
AnalyzerInit ==
    /\ pc = "config"
    /\ \E t \in TargetInputs : target' = t
    /\ report_data' = [k \in {"title"} |-> ReportTitle]
    /\ charts_dir' = TRUE
    /\ pc' = "idle"
    /\ UNCHANGED <<runNo, pipeline, lastCtor, i, charts, report_file,
                   events, assembled, error>>
    /\ UNCHANGED <<heap, red, cli, df, nrun, call, app>>

\* the images the renderers write into charts_dir, one name per renderer
UnivariateFile == "univariate_age_histogram.png"
BivariateFile == "bivariate_age_vs_charges.png"
MultivariateFile == "multivariate_correlation_matrix.png"

\* the keys of the dict generate_profile returns
ProfilePayload == {"dataset_shape", "column_profiles", "missing_values_html"}

\* What a call of a renderer does, as the dataset and the disk decide: it
\* returns a payload or raises, and has written some images by then.
\* generate_profile writes no file.
ProfileOutcomes ==
    {[raises |-> FALSE, value |-> ProfilePayload, files |-> {}],
     [raises |-> TRUE, value |-> {}, files |-> {}]}

\* a chart renderer returns the list of the images it wrote; one that raises
\* leaves the images written so far
PlotOutcomes(file) ==
    {[raises |-> r, value |-> a, files |-> {a[k] : k \in DOMAIN a}] :
        r \in BOOLEAN, a \in {<<>>, <<file>>}}

UnivariateOutcomes == PlotOutcomes(UnivariateFile)

\* bivariate.generate_plots returns [] before it reads the dataset when
\* target_centric is false
BivariateOutcomes(params) ==
    IF ~params.target_centric
    THEN {[raises |-> FALSE, value |-> <<>>, files |-> {}]}
    ELSE PlotOutcomes(BivariateFile)

MultivariateOutcomes == PlotOutcomes(MultivariateFile)

\* plt.savefig(path) for each path: a file of the same name is overwritten
WriteFiles(files) ==
    [f \in DOMAIN charts \cup files |-> IF f \in files THEN runNo ELSE charts[f]]

Ev(e, kind) == [ev |-> e, kind |-> kind, step |-> i]

\* `for step in pipeline`: the body runs for the next step, or the loop ends
ForNext_break(idx, n) == IF idx < 1 /\ idx < n THEN "if_profile" ELSE "report"
ForNext(idx, n) == IF idx < n THEN "if_profile" ELSE "report"

\* the conditions of the four `if` statements of the loop body
ProfileGuard_noflag(step) == step.profile # None
ProfileGuard(step) == step.profile # None /\ step.profile.enabled
UnivariateGuard_noflag(step) == step.univariate # None
UnivariateGuard(step) == step.univariate # None /\ step.univariate.enabled
BivariateGuard(step) == step.bivariate # None /\ step.bivariate.enabled
MultivariateGuard_noflag(step) == step.multivariate # None
MultivariateGuard(step) == step.multivariate # None /\ step.multivariate.enabled

\* `params.get("target_centric") and not target`
MissingTarget_isnone(params, t) == params.target_centric /\ t = NoneStr
MissingTarget(params, t) == params.target_centric /\ ~Truthy(t)

\* A renderer is called with outcome o and its result is stored under the
\* kind's key.  No statement of run() catches an exception: one that a
\* renderer raises leaves run().
Dispatch(kind, o, nextpc, nexti) ==
    /\ events' = events \o <<Ev("call", kind),
                             Ev(IF o.raises THEN "raise" ELSE "return", kind)>>
    /\ charts' = WriteFiles(o.files)
    /\ IF o.raises
       THEN /\ pc' = "failed"
            /\ error' = kind
            /\ UNCHANGED <<i, report_data>>
       ELSE /\ report_data' = Put(report_data, KeyOf(kind), o.value)
            /\ pc' = nextpc
            /\ i' = nexti
            /\ UNCHANGED error
    /\ UNCHANGED <<runNo, pipeline, target, lastCtor, charts_dir,
                   report_file, assembled>>

\* the condition of an `if` is false
Skip(nextpc, nexti) ==
    /\ pc' = nextpc
    /\ i' = nexti
    /\ UNCHANGED <<runNo, pipeline, target, lastCtor, report_data, charts_dir,
                   charts, report_file, events, assembled, error>>

_run_profiling(nextpc, nexti) ==
    \E o \in ProfileOutcomes : Dispatch("profile", o, nextpc, nexti)

_run_univariate(params, nextpc, nexti) ==
    \E o \in UnivariateOutcomes : Dispatch("univariate", o, nextpc, nexti)

_run_bivariate(params, nextpc, nexti) ==
    \/ /\ MissingTarget(params, target)
       /\ events' = Append(events, Ev("skip", "bivariate"))
       /\ pc' = nextpc
       /\ i' = nexti
       /\ UNCHANGED <<runNo, pipeline, target, lastCtor, report_data,
                      charts_dir, charts, report_file, assembled, error>>
    \/ /\ ~MissingTarget(params, target)
       /\ \E o \in BivariateOutcomes(params) :
             Dispatch("bivariate", o, nextpc, nexti)

_run_multivariate(params, nextpc, nexti) ==
    \E o \in MultivariateOutcomes : Dispatch("multivariate", o, nextpc, nexti)

\* Analyzer.run is entered
Run ==
    /\ pc = "idle"
    /\ i' = 1
    /\ pc' = ForNext(0, Len(pipeline))
    /\ UNCHANGED <<runNo, pipeline, target, lastCtor, report_data, charts_dir,
                   charts, report_file, events, assembled, error>>
    /\ UNCHANGED <<heap, red, cli, df, nrun, call, app>>

IfProfile ==
    /\ pc = "if_profile"
    /\ \/ /\ ProfileGuard(pipeline[i])
          /\ _run_profiling("if_univariate", i)
       \/ /\ ~ProfileGuard(pipeline[i])
          /\ Skip("if_univariate", i)
    /\ UNCHANGED <<heap, red, cli, df, nrun, call, app>>

IfUnivariate ==
    /\ pc = "if_univariate"
    /\ \/ /\ UnivariateGuard(pipeline[i])
          /\ _run_univariate(pipeline[i].univariate, "if_bivariate", i)
       \/ /\ ~UnivariateGuard(pipeline[i])
          /\ Skip("if_bivariate", i)
    /\ UNCHANGED <<heap, red, cli, df, nrun, call, app>>

IfBivariate ==
    /\ pc = "if_bivariate"
    /\ \/ /\ BivariateGuard(pipeline[i])
          /\ _run_bivariate(pipeline[i].bivariate, "if_multivariate", i)
       \/ /\ ~BivariateGuard(pipeline[i])
          /\ Skip("if_multivariate", i)
    /\ UNCHANGED <<heap, red, cli, df, nrun, call, app>>

IfMultivariate ==
    /\ pc = "if_multivariate"
    /\ \/ /\ MultivariateGuard(pipeline[i])
          /\ _run_multivariate(pipeline[i].multivariate,
                               ForNext(i, Len(pipeline)), i + 1)
       \/ /\ ~MultivariateGuard(pipeline[i])
          /\ Skip(ForNext(i, Len(pipeline)), i + 1)
    /\ UNCHANGED <<heap, red, cli, df, nrun, call, app>>

----------------------------------------------------------------------------
(* reporting/generator.py *)

\* the profile dict after create_report has added the tables it renders
\* from the keys "missing_values" and "descriptive_statistics"
ProfileWithTables(profile) ==
    profile
    \cup (IF "missing_values" \in profile
          THEN {"missing_values_html"} ELSE {})
    \cup (IF "descriptive_statistics" \in profile
          THEN {"descriptive_statistics_html"} ELSE {})

\* report_data as create_report leaves it before it renders the template
Stamped(d) ==
    LET withTables ==
            IF "profile" \in DOMAIN d /\ d["profile"] # {}
            THEN Put(d, "profile", ProfileWithTables(d["profile"]))
            ELSE d
    IN Put(withTables, "generation_time", runNo)

\* `except IOError as e: logging.error(...); raise`
IOErrorHandler_swallow(e) == NoError
IOErrorHandler(e) == e

\* what may happen in create_report: the template is not found, the file
\* is written, or open/write raises IOError
ReportOutcomes == {"ok", "TemplateNotFound", "IOError"}

create_report(outcome) ==
    /\ assembled' = Append(assembled, [data |-> report_data, at |-> i])
    /\ CASE outcome = "TemplateNotFound" ->
              /\ events' = Append(events, Ev("call", "report"))
              /\ error' = outcome
              /\ UNCHANGED <<report_data, report_file>>
         [] outcome = "IOError" ->
              /\ events' = events \o <<Ev("call", "report"),
                                       Ev("write_failed", "report")>>
              /\ report_data' = Stamped(report_data)
              /\ error' = IOErrorHandler(outcome)
              /\ UNCHANGED report_file
         [] outcome = "ok" ->
              /\ events' = Append(events, Ev("call", "report"))
              /\ report_data' = Stamped(report_data)
              /\ report_file' = runNo
              /\ UNCHANGED error
    /\ pc' = IF error' = NoError THEN "done" ELSE "failed"

\* Analyzer._generate_report, the last statement of run()
_generate_report ==
    /\ pc = "report"
    /\ \E outcome \in ReportOutcomes : create_report(outcome)
    /\ UNCHANGED <<runNo, pipeline, target, lastCtor, i, charts_dir, charts>>
    /\ UNCHANGED <<heap, red, cli, df, nrun, call, app>>

----------------------------------------------------------------------------
\* The process has ended (run() returned or raised, or the configuration was
\* rejected) and the program is started again on the same output directory.
Restart ==
    /\ pc \in {"done", "failed", "rejected"}
    /\ runNo < MaxRuns
    /\ runNo' = runNo + 1
    /\ pc' = "config"
    /\ pipeline' = <<>>
    /\ target' = NoneStr
    /\ lastCtor' = NoCtor
    /\ i' = 0
    /\ report_data' = <<>>
    /\ events' = <<>>
    /\ assembled' = <<>>
    /\ error' = NoError
    /\ UNCHANGED <<charts_dir, charts, report_file>>
    /\ UNCHANGED <<heap, red, cli, df, nrun, call, app>>

\* one invocation of the program, on an output directory that does not exist
Next ==
    \/ RejectSubModel
    \/ RejectAnalysisStep
    \/ AppendStep
    \/ AnalyzerInit
    \/ Run
    \/ IfProfile
    \/ IfUnivariate
    \/ IfBivariate
    \/ IfMultivariate
    \/ _generate_report

\* invocations that follow one another on the same output directory
NextRerun ==
    \/ Next
    \/ Restart

Spec == Init /\ [][Next]_vars

SpecRerun == Init /\ [][NextRerun]_vars

----------------------------------------------------------------------------
(* Vocabulary of the properties, written from the configuration alone *)

FieldOf(step, kind) ==
    CASE kind = "profile" -> step.profile
      [] kind = "univariate" -> step.univariate
      [] kind = "bivariate" -> step.bivariate
      [] kind = "multivariate" -> step.multivariate

\* the step populates the variant and its enabled flag is true
IsEnabled(step, kind) ==
    FieldOf(step, kind) # None /\ FieldOf(step, kind).enabled

NoTargetColumn == target \in {NoneStr, ""}

\* the enabled step is a bivariate one that asks for a target the
\* configuration does not name
LacksTarget(step, kind) ==
    kind = "bivariate" /\ step.bivariate.target_centric /\ NoTargetColumn

\* an enabled step whose precondition holds
Qualifies(step, kind) == IsEnabled(step, kind) /\ ~LacksTarget(step, kind)

StepIdx == 1..Len(pipeline)
KindIdx(kind) == CHOOSE k \in 1..4 : Kinds[k] = kind
IfPositions == <<"if_profile", "if_univariate", "if_bivariate", "if_multivariate">>
InLoop == pc \in {IfPositions[k] : k \in 1..4}
PcIdx == CHOOSE k \in 1..4 : IfPositions[k] = pc

\* run() has gone past the `if` of this kind for step j without raising
Passed(j, kind) ==
    \/ j < i
    \/ j = i /\ InLoop /\ KindIdx(kind) < PcIdx
    \/ j = i /\ pc = "failed" /\ error \in KindSet
             /\ KindIdx(kind) < KindIdx(error)

EventIdx == 1..Len(events)
CallsAt(j, kind) ==
    Cardinality({n \in EventIdx : /\ events[n].ev = "call"
                                  /\ events[n].kind = kind
                                  /\ events[n].step = j})
Calls(kind) ==
    Cardinality({n \in EventIdx : events[n].ev = "call" /\ events[n].kind = kind})

PresentKeys == DOMAIN report_data \cap StepKeys
Finished == pc \in {"done", "failed"}

----------------------------------------------------------------------------
\* C1: when an enabled step's renderer raises, the exception is caught and
\* the pipeline proceeds: once run() has ended, every later enabled step has
\* run and report assembly has happened.
C1_StepFailureIsolated ==
    Finished =>
        \A n \in EventIdx :
            events[n].ev = "raise" /\ events[n].kind \in KindSet =>
                /\ Len(assembled) = 1
                /\ \A j \in StepIdx, kind \in KindSet :
                       j > events[n].step /\ Qualifies(pipeline[j], kind)
                           => CallsAt(j, kind) = 1

\* C2 as stated: no step kind is executed more than once in a run.
C2_KindAtMostOnce == \A kind \in KindSet : Calls(kind) <= 1

\* C2 as amended: every pipeline entry is dispatched at most once, and the
\* renderer of a kind is called once for each enabled entry of that kind
\* (whose precondition holds) that run() has gone past.
C2_OncePerEnabledEntry ==
    \A j \in StepIdx, kind \in KindSet :
        /\ CallsAt(j, kind) <= 1
        /\ Passed(j, kind) =>
               CallsAt(j, kind) = IF Qualifies(pipeline[j], kind) THEN 1 ELSE 0

C2_Witness ==
    /\ pc = "done"
    /\ Calls("profile") = 2

\* C3 as stated: after run() the number of step keys in ReportData equals the
\* number of enabled steps whose preconditions held.
C3_KeysEqualEnabledSteps ==
    pc = "done" =>
        Cardinality(PresentKeys)
            = Cardinality({jk \in StepIdx \X KindSet :
                              Qualifies(pipeline[jk[1]], jk[2])})

\* the kinds of the qualifying steps run() has gone past
PassedKinds ==
    {kind \in KindSet :
        \E j \in StepIdx : Qualifies(pipeline[j], kind) /\ Passed(j, kind)}

\* C3 as amended: the step keys in ReportData are the keys of the distinct
\* kinds of the enabled steps, with their precondition holding, that run()
\* has gone past; their number is the number of those kinds.
C3_KeysEqualDistinctKinds ==
    /\ PresentKeys = {KeyOf(kind) : kind \in PassedKinds}
    /\ Cardinality(PresentKeys) = Cardinality(PassedKinds)

C3_Witness ==
    /\ pc = "done"
    /\ Len(pipeline) = 2
    /\ Qualifies(pipeline[1], "profile")
    /\ Qualifies(pipeline[2], "profile")
    /\ PresentKeys = {"profile"}

\* the enabled bivariate steps of the pipeline
EnabledBivariate == {j \in StepIdx : IsEnabled(pipeline[j], "bivariate")}

\* C4: with no target column, an enabled bivariate step with
\* target_centric=true calls no renderer and raises nothing; when every
\* enabled bivariate step is such a step, ReportData never holds
\* bivariate_plots, and a run that ends without error holds the key of every
\* other enabled step.
C4_MissingTargetSkips ==
    NoTargetColumn =>
        /\ \A j \in EnabledBivariate :
               pipeline[j].bivariate.target_centric =>
                   /\ CallsAt(j, "bivariate") = 0
                   /\ ~(pc = "failed" /\ error = "bivariate" /\ i = j)
        /\ (/\ EnabledBivariate # {}
            /\ \A j \in EnabledBivariate : pipeline[j].bivariate.target_centric)
           => /\ "bivariate_plots" \notin DOMAIN report_data
              /\ pc = "done" =>
                     \A j \in StepIdx, kind \in KindSet \ {"bivariate"} :
                         IsEnabled(pipeline[j], kind)
                             => KeyOf(kind) \in DOMAIN report_data

C4_Witness ==
    /\ pc = "done"
    /\ NoTargetColumn
    /\ \E j \in EnabledBivariate : pipeline[j].bivariate.target_centric
    /\ "bivariate_plots" \notin DOMAIN report_data
    /\ "univariate_plots" \in DOMAIN report_data

RendererEvents == {n \in EventIdx : events[n].kind \in KindSet}

\* C5: only enabled steps are dispatched and they are dispatched in list
\* order; a call has returned or raised before the next event, so an earlier
\* step has finished when a later one starts; a key in ReportData was
\* written by an enabled step.
C5_OrderedEnabledDispatch ==
    /\ \A n \in RendererEvents :
           /\ events[n].step \in StepIdx
           /\ IsEnabled(pipeline[events[n].step], events[n].kind)
    /\ \A m, n \in RendererEvents :
           m < n =>
               \/ events[m].step < events[n].step
               \/ /\ events[m].step = events[n].step
                  /\ KindIdx(events[m].kind) <= KindIdx(events[n].kind)
    /\ \A n \in RendererEvents :
           events[n].ev = "call" =>
               /\ n + 1 \in EventIdx
               /\ events[n + 1].ev \in {"return", "raise"}
               /\ events[n + 1].step = events[n].step
               /\ events[n + 1].kind = events[n].kind
    /\ \A kind \in KindSet :
           KeyOf(kind) \in DOMAIN report_data =>
               \E j \in StepIdx : IsEnabled(pipeline[j], kind) /\ j <= i

C5_Witness ==
    /\ pc = "done"
    /\ Len(events) >= 4
    /\ events[1].ev = "call" /\ events[1].step = 1
    /\ events[3].ev = "call" /\ events[3].step = 2
    /\ events[1].kind # events[3].kind

\* C6: report assembly is invoked at most once, never while the loop over
\* the steps is running and never after a step raised; a run that ends
\* without a step error has invoked it exactly once, after the last step,
\* with a ReportData that holds the key of every step that returned.
C6_AssembledOnceAfterAllSteps ==
    /\ Len(assembled) <= 1
    /\ (InLoop \/ (pc = "failed" /\ error \in KindSet)) => Len(assembled) = 0
    /\ (Finished /\ error \notin KindSet) => Len(assembled) = 1
    /\ Len(assembled) = 1 =>
           /\ assembled[1].at = Len(pipeline) + 1
           /\ \A j \in StepIdx, kind \in KindSet :
                  Qualifies(pipeline[j], kind)
                      => KeyOf(kind) \in DOMAIN assembled[1].data
           /\ \A n \in EventIdx :
                  events[n].ev = "return"
                      => KeyOf(events[n].kind) \in DOMAIN assembled[1].data

C6_Witness ==
    /\ pc = "done"
    /\ Len(pipeline) = 2
    /\ Len(assembled) = 1
    /\ {"profile", "multivariate_plots"} \subseteq DOMAIN assembled[1].data

\* C7: once run() has started, the charts directory holds no file of an
\* earlier run: every chart in it was written by this run.
C7_StaleChartsRemoved ==
    (InLoop \/ pc \in {"report", "done"}) =>
        \A f \in DOMAIN charts : charts[f] = runNo

WriteFailed == \E n \in EventIdx : events[n].ev = "write_failed"

\* C8: when the report file cannot be written, run() ends with that error,
\* and every step key of ReportData is present with the payload it had when
\* report assembly was called.
C8_ReportFailureSurfaced ==
    WriteFailed =>
        /\ pc = "failed"
        /\ error = "IOError"
        /\ report_file # runNo
        /\ \A k \in StepKeys :
               /\ k \in DOMAIN report_data <=> k \in DOMAIN assembled[1].data
               /\ k \in DOMAIN report_data
                      => report_data[k] = assembled[1].data[k]

C8_Witness ==
    /\ WriteFailed
    /\ pc = "failed"
    /\ {"profile", "univariate_plots"} \subseteq DOMAIN report_data

\* the number of variants a step populates
Variants(step) == Cardinality({kind \in KindSet : FieldOf(step, kind) # None})

\* C9: the AnalysisStep constructor succeeds exactly when one variant is
\* populated, and every step of a pipeline populates exactly one.
C9_ExactlyOneVariant ==
    /\ lastCtor.cls = "AnalysisStep" =>
           (lastCtor.ok <=> Variants(lastCtor.arg) = 1)
    /\ \A j \in StepIdx : Variants(pipeline[j]) = 1

C9_Witness ==
    /\ lastCtor.cls = "AnalysisStep"
    /\ ~lastCtor.ok
    /\ Variants(lastCtor.arg) = 0

\* C10: the UnivariateStep and BivariateStep constructors fail only for
\* max_categories <= 0, and no step of a pipeline, at any point of a run,
\* has max_categories < 1.
C10_MaxCategoriesPositive ==
    /\ (lastCtor.cls \in {"UnivariateStep", "BivariateStep"} /\ ~lastCtor.ok)
           => lastCtor.arg.max_categories <= 0
    /\ \A j \in StepIdx :
           /\ pipeline[j].univariate # None
                  => pipeline[j].univariate.max_categories >= 1
           /\ pipeline[j].bivariate # None
                  => pipeline[j].bivariate.max_categories >= 1

C10_Witness ==
    /\ lastCtor.cls = "BivariateStep"
    /\ ~lastCtor.ok
    /\ lastCtor.arg.max_categories = 0

----------------------------------------------------------------------------
(* plots/utils.py handle_high_cardinality and its copy in                  *)
(* plots/univariate.py, _handle_high_cardinality: the cardinality reducer. *)
(* A Series is an object on the heap: its values in order, and its dtype   *)
(* ("object", or "category" with the set of its categories).               *)

\* longest column that is reduced
MaxLen == 4
\* largest max_categories the reducer is called with
MaxK == 2

\* a missing value (NaN / None) of a column
NaN == "<NaN>"
\* the label of the aggregate bucket
Other == "Other"
ColumnValues == {"A", "B", "C", Other, NaN}
KInputs == (-1)..MaxK

Columns == UNION {[1..n -> ColumnValues] : n \in 0..MaxLen}

\* the values of a column that are not missing
NonNull(vals) == {vals[n] : n \in DOMAIN vals} \ {NaN}

\* pd.Series(data) and pd.Series(data, dtype="category")
NewSeries(vals, dtype) ==
    [values |-> vals, dtype |-> dtype,
     categories |-> IF dtype = "category" THEN NonNull(vals) ELSE {}]

\* a new object on the heap h: the heap with it, and the reference to it
Alloc(h, obj) == [heap |-> Append(h, obj), ref |-> Len(h) + 1]

series_copy_alias(h, ref) == [heap |-> h, ref |-> ref]
\* series.copy()
series_copy(h, ref) == Alloc(h, h[ref])

\* series.empty
IsEmpty(obj) == Len(obj.values) = 0

nunique_withnull(obj) == Cardinality({obj.values[n] : n \in DOMAIN obj.values})
\* series.nunique(): missing values are not counted
nunique(obj) == Cardinality(NonNull(obj.values))

CountOf(vals, v) == Cardinality({n \in DOMAIN vals : vals[n] = v})

WithinLimit_lt(obj, max_categories) == nunique(obj) < max_categories
\* series.nunique() <= max_categories
WithinLimit(obj, max_categories) == nunique(obj) <= max_categories

\* series.value_counts().nlargest(n).index: n values none of which is less
\* frequent than a value left out.  value_counts leaves missing values out
\* and, for a categorical Series, counts every category; which of several
\* equally frequent values come first is left to pandas.  With fewer than n
\* values all of them are returned.
nlargest_index(obj, n) ==
    LET cands == NonNull(obj.values) \cup obj.categories
        size == IF n < 0 THEN 0
                ELSE IF n > Cardinality(cands) THEN Cardinality(cands) ELSE n
    IN {T \in SUBSET cands :
          /\ Cardinality(T) = size
          /\ \A t \in T, u \in cands \ T :
                 CountOf(obj.values, t) >= CountOf(obj.values, u)}

top_categories_keepone(obj, max_categories) ==
    nlargest_index(obj, IF max_categories = 1 THEN 1 ELSE max_categories - 1)
top_categories_keepk(obj, max_categories) ==
    IF max_categories = 1 THEN {{}} ELSE nlargest_index(obj, max_categories)
\* the values top_categories may be: pd.Index([]) for max_categories == 1,
\* else the max_categories - 1 most frequent values
top_categories(obj, max_categories) ==
    IF max_categories = 1 THEN {{}}
    ELSE nlargest_index(obj, max_categories - 1)

\* new_series.cat.add_categories("Other") of a categorical Series without it
add_categories(obj) ==
    IF obj.dtype = "category" /\ Other \notin obj.categories
    THEN [obj EXCEPT !.categories = @ \cup {Other}]
    ELSE obj

\* new_series.where(new_series.isin(top), "Other"): a value outside top, a
\* missing one included, becomes "Other"
where_isin_keepnull(obj, top) ==
    [obj EXCEPT !.values =
        [n \in DOMAIN obj.values |->
            IF obj.values[n] \in top \cup {NaN} THEN obj.values[n] ELSE Other]]
where_isin(obj, top) ==
    [obj EXCEPT !.values =
        [n \in DOMAIN obj.values |->
            IF obj.values[n] \in top THEN obj.values[n] ELSE Other]]

InvalidParameter_neg(max_categories) == max_categories < 0
\* max_categories < 1
InvalidParameter(max_categories) == max_categories < 1

\* One call on the Series h[ref], with `top` what top_categories turns out to
\* be: the heap after the call, whether ValueError was raised, the reference
\* to the returned Series and the truncation flag.
handle_high_cardinality(h, ref, max_categories, top) ==
    IF InvalidParameter(max_categories)
    THEN [heap |-> h, raised |-> TRUE, ref |-> 0, truncated |-> FALSE]
    ELSE IF IsEmpty(h[ref]) \/ WithinLimit(h[ref], max_categories)
    THEN LET c == series_copy(h, ref)
         IN [heap |-> c.heap, raised |-> FALSE, ref |-> c.ref,
             truncated |-> FALSE]
    ELSE LET c == series_copy(h, ref)
             a == Alloc(c.heap, add_categories(c.heap[c.ref]))
             w == Alloc(a.heap, where_isin(a.heap[a.ref], top))
         IN [heap |-> w.heap, raised |-> FALSE, ref |-> w.ref,
             truncated |-> TRUE]

\* the copy of the function in plots/univariate.py, statement for statement
_handle_high_cardinality(h, ref, max_categories, top) ==
    IF InvalidParameter(max_categories)
    THEN [heap |-> h, raised |-> TRUE, ref |-> 0, truncated |-> FALSE]
    ELSE IF IsEmpty(h[ref]) \/ WithinLimit(h[ref], max_categories)
    THEN LET c == series_copy(h, ref)
         IN [heap |-> c.heap, raised |-> FALSE, ref |-> c.ref,
             truncated |-> FALSE]
    ELSE LET c == series_copy(h, ref)
             a == Alloc(c.heap, add_categories(c.heap[c.ref]))
             w == Alloc(a.heap, where_isin(a.heap[a.ref], top))
         IN [heap |-> w.heap, raised |-> FALSE, ref |-> w.ref,
             truncated |-> TRUE]

\* the two callers' functions
Reducers == {"handle_high_cardinality", "_handle_high_cardinality"}
Reduce(fn, h, ref, max_categories, top) ==
    IF fn = "handle_high_cardinality"
    THEN handle_high_cardinality(h, ref, max_categories, top)
    ELSE _handle_high_cardinality(h, ref, max_categories, top)

\* a caller holds one Series and is about to reduce it
InitReducer ==
    /\ \E vals \in Columns, dtype \in {"object", "category"} :
          heap = <<NewSeries(vals, dtype)>>
    /\ \E fn \in Reducers, k \in KInputs :
          red = [pc |-> "ready", fn |-> fn, max_categories |-> k,
                 orig |-> heap[1], arg |-> 1, calls |-> <<>>]
    /\ NoCli
    /\ NoData
    /\ NoCall
    /\ NoApp
    /\ pc = "none"
    /\ runNo = 1
    /\ pipeline = <<>>
    /\ target = NoneStr
    /\ lastCtor = NoCtor
    /\ i = 0
    /\ report_data = <<>>
    /\ charts_dir = FALSE
    /\ charts = [f \in {} |-> 0]
    /\ report_file = 0
    /\ events = <<>>
    /\ assembled = <<>>
    /\ error = NoError

\* the reducer is called on red.arg and raises or returns
ReducerCall ==
    /\ red.pc = "ready"
    /\ \E top \in top_categories(heap[red.arg], red.max_categories) :
          LET r == Reduce(red.fn, heap, red.arg, red.max_categories, top)
          IN /\ heap' = r.heap
             /\ red' = [red EXCEPT
                    !.pc = IF r.raised THEN "raised" ELSE "returned",
                    !.calls = Append(@, [arg |-> red.arg, ret |-> r.ref,
                                         before |-> heap[red.arg],
                                         raised |-> r.raised,
                                         truncated |-> r.truncated])]
    /\ UNCHANGED <<coreVars, cli, df, nrun, call, app>>

\* the caller passes the Series it got back to the reducer again
ReducerReapply ==
    /\ red.pc = "returned"
    /\ Len(red.calls) = 1
    /\ red' = [red EXCEPT !.pc = "ready", !.arg = red.calls[1].ret]
    /\ UNCHANGED <<coreVars, heap, cli, df, nrun, call, app>>

NextReducer ==
    \/ ReducerCall
    \/ ReducerReapply

SpecReducer == InitReducer /\ [][NextReducer]_vars

----------------------------------------------------------------------------
(* Properties of the cardinality reducer.                                  *)

\* the calls of the reducer made so far
ReducerCalls == IF red.pc = "none" THEN {} ELSE {red.calls[n] : n \in DOMAIN red.calls}
\* the calls that returned a column
Returned == {c \in ReducerCalls : ~c.raised}
\* the values of the column a call returned
Out(c) == heap[c.ret].values
\* the values of the column a call was given
In(c) == c.before.values
DistinctOut(c) == {Out(c)[n] : n \in DOMAIN Out(c)}

(* C12: for max_categories >= 1 the reducer reports a truncation exactly   *)
(* when the column is non-empty and holds more than max_categories         *)
(* distinct (non-missing) values; in every other case the returned column  *)
(* equals the input, dtype and categories included.                        *)
C12_NoOpWithinLimit ==
    \A c \in Returned :
        /\ c.truncated <=> (~IsEmpty(c.before)
                             /\ nunique(c.before) > red.max_categories)
        /\ ~c.truncated => heap[c.ret] = c.before

C12_Witness ==
    \E c \in Returned :
        /\ ~c.truncated
        /\ Len(In(c)) = 3
        /\ nunique(c.before) = 2
        /\ red.max_categories = 2

(* C13: with max_categories < 1 every call raises and returns no column,   *)
(* the empty column included.                                              *)
C13_InvalidParameterRaises ==
    \A c \in ReducerCalls :
        red.max_categories < 1 => c.raised /\ c.ret = 0 /\ ~c.truncated

C13_Witness ==
    \E c \in ReducerCalls :
        c.raised /\ IsEmpty(c.before) /\ red.max_categories = 0

C15_Idempotent ==
    (red.pc # "none" /\ Len(red.calls) = 2) =>
        LET first == red.calls[1]
            second == red.calls[2]
        IN /\ second.arg = first.ret
           /\ ~second.raised
           /\ ~second.truncated
           /\ heap[second.ret] = heap[first.ret]

C15_Witness ==
    /\ red.pc = "returned"
    /\ Len(red.calls) = 2
    /\ red.calls[1].truncated
    /\ {Other, NaN} \subseteq {In(red.calls[1])[n] : n \in DOMAIN In(red.calls[1])}
    /\ heap[red.calls[2].ret] = heap[red.calls[1].ret]

\* a truncating call with max_categories >= 2
Truncations == {c \in Returned : c.truncated /\ red.max_categories >= 2}

\* the column returned keeps the values of T where they were and holds
\* "Other" everywhere else
KeepsVerbatim(c, T) ==
    /\ Len(Out(c)) = Len(In(c))
    /\ \A n \in DOMAIN In(c) :
          Out(c)[n] = IF In(c)[n] \in T THEN In(c)[n] ELSE Other

(* C16, as stated: a truncation with max_categories >= 2 keeps the         *)
(* positions and the count of each of the max_categories - 1 most frequent *)
(* values, puts "Other" everywhere else and leaves at most max_categories  *)
(* distinct values.                                                        *)
C16_TopValuesKeepCount ==
    \A c \in Truncations :
        \E T \in nlargest_index(c.before, red.max_categories - 1) :
            /\ KeepsVerbatim(c, T)
            /\ \A t \in T : CountOf(Out(c), t) = CountOf(In(c), t)
            /\ Cardinality(DistinctOut(c)) <= red.max_categories

(* C16, amended: as above, but a kept value keeps its count only when it   *)
(* is not the literal "Other", whose count grows by the relabelled values. *)
C16_TopValuesKeepCountUnlessOther ==
    \A c \in Truncations :
        \E T \in nlargest_index(c.before, red.max_categories - 1) :
            /\ KeepsVerbatim(c, T)
            /\ \A t \in T \ {Other} : CountOf(Out(c), t) = CountOf(In(c), t)
            /\ Other \in T => CountOf(Out(c), Other) > CountOf(In(c), Other)
            /\ Cardinality(DistinctOut(c)) <= red.max_categories

C16_Witness ==
    \E c \in Truncations :
        /\ red.max_categories = 2
        /\ CountOf(In(c), "A") = 2
        /\ CountOf(Out(c), "A") = 2
        /\ CountOf(In(c), "B") = 1
        /\ CountOf(In(c), "C") = 1
        /\ CountOf(Out(c), Other) = 2

(* C17: a call leaves the column it was given as it was, and the column it *)
(* returns is another object than the one it was given.                    *)
C17_InputUntouched ==
    \A c \in ReducerCalls :
        /\ heap[c.arg] = c.before
        /\ ~c.raised => c.ret # c.arg
        /\ heap[1] = red.orig

C17_Witness ==
    \E c \in Returned :
        /\ ~c.truncated
        /\ ~IsEmpty(c.before)
        /\ c.ret # c.arg
        /\ heap[c.ret] = heap[c.arg]

----------------------------------------------------------------------------
(* The renderers on a dataset.  A dataset is the sequence of its columns,  *)
(* each a name and a dtype; the plotting library and the disk do what they *)
(* are asked.                                                              *)

\* most columns of a dataset
MaxCols == 3
\* most calls of run() on one Analyzer
MaxCalls == 2

\* UnivariateStep.max_categories and BivariateStep.max_categories by default
DefaultMaxCategories == 20

ColumnNames == <<"age", "charges", "sex", "bmi", "region">>
\* "number" for the integer and float dtypes, "bool", "object" for object
\* and category, "datetime" for a dtype that is none of these
Dtypes == {"number", "bool", "object", "datetime"}

\* the datasets: any of the first MaxCols names, in order, each of any dtype
Datasets ==
    UNION {{[k \in 1..Cardinality(S) |->
                [name |-> ColumnNames[CHOOSE n \in S :
                              Cardinality({m \in S : m < n}) = k - 1],
                 dtype |-> t[CHOOSE n \in S :
                              Cardinality({m \in S : m < n}) = k - 1]]] :
             t \in [S -> Dtypes]} : S \in SUBSET (1..MaxCols)}

\* df.columns
ColumnsOf(d) == {d[k].name : k \in DOMAIN d}
\* df[name]: the column, for a name that is in df.columns
Column(d, name) == d[CHOOSE k \in DOMAIN d : d[k].name = name]

\* df.select_dtypes(include=["number"]).columns
numerical_columns(d) == SelectSeq(d, LAMBDA c : c.dtype = "number")
\* df.select_dtypes(include=["object", "category"]).columns
categorical_columns(d) == SelectSeq(d, LAMBDA c : c.dtype = "object")
\* pd.api.types.is_numeric_dtype(df[name])
is_numeric_dtype(c) == c.dtype \in {"number", "bool"}

\* the kind each component gives a column: generate_profile and
\* bivariate.generate_plots ask is_numeric_dtype and take every other
\* column as categorical; univariate.generate_plots and
\* multivariate.generate_plots take the columns select_dtypes gives them
ProfilerKind(c) == IF is_numeric_dtype(c) THEN "Numerical" ELSE "Categorical"
BivariateKind(c) == IF is_numeric_dtype(c) THEN "Numerical" ELSE "Categorical"
UnivariateKind(c) ==
    IF numerical_columns(<<c>>) # <<>> THEN "Numerical"
    ELSE IF categorical_columns(<<c>>) # <<>> THEN "Categorical"
    ELSE "neither"
MultivariateKind(c) ==
    IF numerical_columns(<<c>>) # <<>> THEN "Numerical" ELSE "neither"

\* the path f"{renderer}_{a}_{b}.png" (f"bivariate_{a}_vs_{b}.png") in
\* charts_dir
ChartName(renderer, a, b) == <<renderer, a, b>>
CorrelationMatrix == ChartName("multivariate", "correlation", "matrix")

\* plot_types of UnivariateStep by default
NumericalPlotTypes == <<"histogram", "boxplot">>
CategoricalPlotTypes == <<"barplot">>
DefaultPlotTypes ==
    [numerical |-> NumericalPlotTypes, categorical |-> CategoricalPlotTypes]

Range(q) == {q[k] : k \in DOMAIN q}

\* d.get(key, default) of a Python dict
Get(dict, key, default) == IF key \in DOMAIN dict THEN dict[key] ELSE default

\* step.model_dump(): the fields of the sub-model as a dict; a field the
\* record leaves out holds the default of the schema
model_dump(step) ==
    CASE step.tag = "UnivariateStep" ->
            [enabled |-> step.enabled,
             plot_types |-> Get(step, "plot_types", DefaultPlotTypes),
             max_categories |-> step.max_categories]
      [] step.tag = "MultivariateStep" ->
            [enabled |-> step.enabled,
             correlation_cols |-> Get(step, "correlation_cols", <<>>)]
      [] OTHER -> step

\* the outcome of a renderer that returns the list `paths` of what it wrote
Returns(paths) == [raises |-> FALSE, value |-> paths, files |-> Range(paths)]
\* the outcome of a renderer that raises after it wrote `paths`
Raises(paths) == [raises |-> TRUE, value |-> <<>>, files |-> Range(paths)]

\* profiling.generate_profile(df): the keys of the dict it returns
generate_profile(d) == [raises |-> FALSE, value |-> ProfilePayload, files |-> {}]

\* what the body of the loop over the numerical plot types draws into the
\* new figure: the `if` and the `elif` know two names, and the figure of
\* any other name stays blank
NumericalPlot(plot_type) ==
    CASE plot_type = "histogram" -> "histplot"
      [] plot_type = "boxplot" -> "boxplot"
      [] OTHER -> "blank"

\* the numerical loops of univariate.generate_plots: for every numerical
\* column in turn and every plot type in turn, `path = ...;
\* plt.savefig(path); plot_paths.append(...)`, the statements after the
\* if/elif, which run whatever the name is
NumericalArtifacts(num, types) ==
    LET np == Len(types)
    IN [k \in 1..(Len(num) * np) |->
           ChartName("univariate", num[((k - 1) \div np) + 1].name,
                     types[((k - 1) % np) + 1])]

CategoricalArtifacts(cat, types) ==
    IF "barplot" \in Range(types)
    THEN [k \in 1..Len(cat) |-> ChartName("univariate", cat[k].name, "barplot")]
    ELSE <<>>

InOrder_columns(d, params, numerical, categorical) ==
    LET types == Get(Get(params, "plot_types", <<>>), "numerical", <<>>)
        bar == Get(Get(params, "plot_types", <<>>), "categorical", <<>>)
        OfColumn(c) ==
            IF c.dtype = "number" THEN NumericalArtifacts(<<c>>, types)
            ELSE IF c.dtype = "object" THEN CategoricalArtifacts(<<c>>, bar)
            ELSE <<>>
        Flat[k \in 0..Len(d)] ==
            IF k = 0 THEN <<>> ELSE Flat[k - 1] \o OfColumn(d[k])
    IN Flat[Len(d)]
\* plot_paths at the end: the loop over the numerical columns comes first,
\* the loop over the categorical columns second
InOrder(d, params, numerical, categorical) == numerical \o categorical

\* univariate.generate_plots(df, charts_dir, params): every plot type of
\* every numerical column, then the bar plot of every categorical column,
\* whose values go through _handle_high_cardinality first
univariate_generate_plots(d, params) ==
    LET plot_types == Get(params, "plot_types", <<>>)
        numerical ==
            NumericalArtifacts(numerical_columns(d),
                               Get(plot_types, "numerical", <<>>))
        categorical ==
            CategoricalArtifacts(categorical_columns(d),
                                 Get(plot_types, "categorical", <<>>))
    IN IF categorical # <<>>
          /\ InvalidParameter(Get(params, "max_categories", DefaultMaxCategories))
       THEN Raises(numerical)
       ELSE Returns(InOrder(d, params, numerical, categorical))

TargetCentricFirst_late(d, target_column, params) ==
    IF target_column \notin ColumnsOf(d) THEN "KeyError"
    ELSE IF ~params.target_centric THEN "empty"
    ELSE "plots"
\* the first statements of bivariate.generate_plots: `return []` when
\* target_centric is not set, and only then df[target_column], a KeyError
\* for a name that is not a column
TargetCentricFirst(d, target_column, params) ==
    IF ~params.target_centric THEN "empty"
    ELSE IF target_column \notin ColumnsOf(d) THEN "KeyError"
    ELSE "plots"

Features_all(d, target_column) == d
\* features = [column for column in df.columns if column != target_column]
Features(d, target_column) == SelectSeq(d, LAMBDA c : c.name # target_column)

\* the plot the loop body draws for a feature: a scatter plot for a
\* numerical feature and a numerical target, a box plot of the reduced
\* feature for another feature and a numerical target, none (plot_generated
\* stays False) for another target
BivariatePlot(feature, target_series) ==
    IF is_numeric_dtype(feature) /\ is_numeric_dtype(target_series)
    THEN "scatterplot"
    ELSE IF ~is_numeric_dtype(feature) /\ is_numeric_dtype(target_series)
    THEN "boxplot"
    ELSE "none"

\* the loop of bivariate.generate_plots, for a target that is a column: for
\* every feature in turn the plot that is drawn
BivariateLoop(d, target_column) ==
    LET features == Features(d, target_column)
    IN [k \in 1..Len(features) |->
           [feature |-> features[k].name,
            plot |-> BivariatePlot(features[k], Column(d, target_column))]]

\* bivariate.generate_plots(df, target_column, charts_dir, params): one
\* artifact for every feature a plot was drawn for; ValueError of the
\* reducer ends the loop at the first box plot
bivariate_generate_plots(d, target_column, params) ==
    LET first == TargetCentricFirst(d, target_column, params)
        loop == BivariateLoop(d, target_column)
        \* the features before the first one that is reduced
        before == CHOOSE n \in 0..Len(loop) :
                      /\ \A k \in 1..n : loop[k].plot # "boxplot"
                      /\ n < Len(loop) => loop[n + 1].plot = "boxplot"
        PathsOf(l) ==
            LET drawn == SelectSeq(l, LAMBDA e : e.plot # "none")
            IN [k \in 1..Len(drawn) |->
                   ChartName("bivariate", drawn[k].feature, target_column)]
    IN CASE first = "empty" -> Returns(<<>>)
         [] first = "KeyError" -> Raises(<<>>)
         [] OTHER ->
              IF before < Len(loop)
                 /\ InvalidParameter(Get(params, "max_categories",
                                         DefaultMaxCategories))
              THEN Raises(PathsOf(SubSeq(loop, 1, before)))
              ELSE Returns(PathsOf(loop))

NotEnoughColumns_three(n) == n < 3
\* df_numeric.shape[1] < 2
NotEnoughColumns(n) == n < 2

Selected_numeric(d, cols) == numerical_columns(d)
\* `if not cols: df_numeric = df.select_dtypes(include=["number"])
\*  else: df_numeric = df[cols]`, for cols that are columns
Selected(d, cols) ==
    IF cols = <<>> THEN numerical_columns(d)
    ELSE [k \in 1..Len(cols) |-> Column(d, cols[k])]

\* multivariate.generate_plots(df, charts_dir, params).  df[cols] raises
\* KeyError for a name that is no column.  df_numeric.corr() of a selection
\* with a column that cannot be converted to float raises from pandas 2.0
\* on and leaves the column out before (`drops`); the heat map of no
\* column at all raises.
multivariate_generate_plots(d, params, drops) ==
    LET cols == Get(params, "correlation_cols", <<>>)
        df_numeric == Selected(d, cols)
        convertible == SelectSeq(df_numeric, is_numeric_dtype)
    IN IF cols # <<>> /\ ~(Range(cols) \subseteq ColumnsOf(d))
       THEN Raises(<<>>)
       ELSE IF NotEnoughColumns(Len(df_numeric))
       THEN Returns(<<>>)
       ELSE IF Len(convertible) < Len(df_numeric)
               /\ (~drops \/ convertible = <<>>)
       THEN Raises(<<>>)
       ELSE Returns(<<CorrelationMatrix>>)

\* the configurations of a pipeline of the four kinds in order, each
\* enabled or not, as Config accepts them
ScenarioPipelines ==
    {<<AnalysisStep(ProfileStep(p).value, None, None, None).value,
       AnalysisStep(None, UnivariateStep(u, DefaultMaxCategories).value,
                    None, None).value,
       AnalysisStep(None, None,
                    BivariateStep(b, tc, DefaultMaxCategories).value,
                    None).value,
       AnalysisStep(None, None, None, MultivariateStep(m).value).value>> :
        p \in BOOLEAN, u \in BOOLEAN, b \in BOOLEAN, tc \in BOOLEAN,
        m \in BOOLEAN}

\* target_variable: none, a name that may be a column, a name that is none
ScenarioTargets == {NoneStr, "charges", "nope"}

\* Analyzer(df, config) has been constructed on a new output directory
InitScenario ==
    /\ NoReducer
    /\ NoCli
    /\ NoCall
    /\ NoApp
    /\ df \in Datasets
    /\ nrun = 0
    /\ pc = "idle"
    /\ runNo = 1
    /\ pipeline \in ScenarioPipelines
    /\ target \in ScenarioTargets
    /\ lastCtor = NoCtor
    /\ i = 0
    /\ report_data = [k \in {"title"} |-> ReportTitle]
    /\ charts_dir = TRUE
    /\ charts = [f \in {} |-> 0]
    /\ report_file = 0
    /\ events = <<>>
    /\ assembled = <<>>
    /\ error = NoError

\* run() is called on the Analyzer
RunOn ==
    /\ pc \in {"idle", "done"}
    /\ nrun < MaxCalls
    /\ nrun' = nrun + 1
    /\ i' = 1
    /\ pc' = ForNext(0, Len(pipeline))
    /\ UNCHANGED <<runNo, pipeline, target, lastCtor, report_data, charts_dir,
                   charts, report_file, events, assembled, error>>
    /\ UNCHANGED <<heap, red, cli, df, call, app>>

IfProfileOn ==
    /\ pc = "if_profile"
    /\ \/ /\ ProfileGuard(pipeline[i])
          /\ Dispatch("profile", generate_profile(df), "if_univariate", i)
       \/ /\ ~ProfileGuard(pipeline[i])
          /\ Skip("if_univariate", i)
    /\ UNCHANGED <<heap, red, cli, df, nrun, call, app>>

IfUnivariateOn ==
    /\ pc = "if_univariate"
    /\ \/ /\ UnivariateGuard(pipeline[i])
          /\ Dispatch("univariate",
                      univariate_generate_plots(
                          df, model_dump(pipeline[i].univariate)),
                      "if_bivariate", i)
       \/ /\ ~UnivariateGuard(pipeline[i])
          /\ Skip("if_bivariate", i)
    /\ UNCHANGED <<heap, red, cli, df, nrun, call, app>>

\* Analyzer._run_bivariate on the dataset
_run_bivariate_on(params, nextpc, nexti) ==
    \/ /\ MissingTarget(params, target)
       /\ events' = Append(events, Ev("skip", "bivariate"))
       /\ pc' = nextpc
       /\ i' = nexti
       /\ UNCHANGED <<runNo, pipeline, target, lastCtor, report_data,
                      charts_dir, charts, report_file, assembled, error>>
    \/ /\ ~MissingTarget(params, target)
       /\ Dispatch("bivariate",
                   bivariate_generate_plots(df, target, model_dump(params)),
                   nextpc, nexti)

IfBivariateOn ==
    /\ pc = "if_bivariate"
    /\ \/ /\ BivariateGuard(pipeline[i])
          /\ _run_bivariate_on(pipeline[i].bivariate, "if_multivariate", i)
       \/ /\ ~BivariateGuard(pipeline[i])
          /\ Skip("if_multivariate", i)
    /\ UNCHANGED <<heap, red, cli, df, nrun, call, app>>

IfMultivariateOn ==
    /\ pc = "if_multivariate"
    /\ \/ /\ MultivariateGuard(pipeline[i])
          /\ \E drops \in BOOLEAN :
                Dispatch("multivariate",
                         multivariate_generate_plots(
                             df, model_dump(pipeline[i].multivariate), drops),
                         ForNext(i, Len(pipeline)), i + 1)
       \/ /\ ~MultivariateGuard(pipeline[i])
          /\ Skip(ForNext(i, Len(pipeline)), i + 1)
    /\ UNCHANGED <<heap, red, cli, df, nrun, call, app>>

\* Analyzer._generate_report when the template is there and the report
\* file can be written
GenerateReportOn ==
    /\ pc = "report"
    /\ create_report("ok")
    /\ UNCHANGED <<runNo, pipeline, target, lastCtor, i, charts_dir, charts>>
    /\ UNCHANGED <<heap, red, cli, df, nrun, call, app>>

NextScenario ==
    \/ RunOn
    \/ IfProfileOn
    \/ IfUnivariateOn
    \/ IfBivariateOn
    \/ IfMultivariateOn
    \/ GenerateReportOn

SpecScenario == InitScenario /\ [][NextScenario]_vars

----------------------------------------------------------------------------
(* Pipelines that hold a kind more than once, run on the dataset of the    *)
(* tests.                                                                  *)

\* the DataFrame of tests/test_analyser.py
TestDataset ==
    <<[name |-> "age", dtype |-> "number"],
      [name |-> "sex", dtype |-> "object"],
      [name |-> "bmi", dtype |-> "number"],
      [name |-> "charges", dtype |-> "number"]>>

\* the steps of such a pipeline: one kind each, enabled or not, with params
\* that make the payloads of two steps of a kind differ
RepeatSteps ==
    {AnalysisStep(ProfileStep(e).value, None, None, None).value :
        e \in BOOLEAN}
    \cup {AnalysisStep(None,
                       Put(UnivariateStep(e, DefaultMaxCategories).value,
                           "plot_types", t),
                       None, None).value :
             e \in BOOLEAN,
             t \in {DefaultPlotTypes,
                    [numerical |-> <<"histogram">>,
                     categorical |-> <<"barplot">>]}}
    \cup {AnalysisStep(None, None,
                       BivariateStep(e, tc, DefaultMaxCategories).value,
                       None).value :
             e \in BOOLEAN, tc \in BOOLEAN}
    \cup {AnalysisStep(None, None, None,
                       Put(MultivariateStep(e).value,
                           "correlation_cols", c)).value :
             e \in BOOLEAN, c \in {<<>>, <<"age">>}}

RepeatPipelines == UNION {[1..n -> RepeatSteps] : n \in 1..MaxSteps}

\* Analyzer(df, config) has been constructed
InitRepeat ==
    /\ NoReducer
    /\ NoCli
    /\ NoCall
    /\ NoApp
    /\ df = TestDataset
    /\ nrun = 0
    /\ pc = "idle"
    /\ runNo = 1
    /\ pipeline \in RepeatPipelines
    /\ target \in {NoneStr, "charges"}
    /\ lastCtor = NoCtor
    /\ i = 0
    /\ report_data = [k \in {"title"} |-> ReportTitle]
    /\ charts_dir = TRUE
    /\ charts = [f \in {} |-> 0]
    /\ report_file = 0
    /\ events = <<>>
    /\ assembled = <<>>
    /\ error = NoError

SpecRepeat == InitRepeat /\ [][NextScenario]_vars

----------------------------------------------------------------------------
(* The renderers called on their own, on a dataset and a params dict, with *)
(* charts_dir an existing directory.                                       *)

\* the plot_types a caller passes
PlotTypeChoices ==
    {DefaultPlotTypes,
     [numerical |-> <<"boxplot", "histogram">>, categorical |-> <<>>],
     [numerical |-> <<"histogram", "violin">>, categorical |-> <<"pie">>],
     [numerical |-> <<"violin">>, categorical |-> <<"pie", "barplot">>],
     [categorical |-> <<"barplot">>]}

\* the params of univariate.generate_plots: a dict with or without the key
\* plot_types
UnivariateParams ==
    {[max_categories |-> DefaultMaxCategories]}
    \cup {[plot_types |-> t, max_categories |-> DefaultMaxCategories] :
             t \in PlotTypeChoices}

BivariateParamsSet ==
    {[target_centric |-> tc, max_categories |-> DefaultMaxCategories] :
        tc \in BOOLEAN}

\* the correlation_cols a caller passes: none, names of columns, a name
\* that is no column
CorrelationColsChoices ==
    {<<>>, <<"age">>, <<"age", "charges">>, <<"sex", "age">>,
     <<"age", "nope">>, <<"charges", "age", "sex">>}

MultivariateParams == {[correlation_cols |-> c] : c \in CorrelationColsChoices}

InitCalls ==
    /\ NoReducer
    /\ NoCli
    /\ df \in Datasets
    /\ nrun = 0
    /\ call = [pc |-> "ready"]
    /\ NoApp
    /\ pc = "none"
    /\ runNo = 1
    /\ pipeline = <<>>
    /\ target = NoneStr
    /\ lastCtor = NoCtor
    /\ i = 0
    /\ report_data = <<>>
    /\ charts_dir = TRUE
    /\ charts = [f \in {} |-> 0]
    /\ report_file = 0
    /\ events = <<>>
    /\ assembled = <<>>
    /\ error = NoError

\* fn was called with args and came back with result, having drawn `drawn`
RecordCall(fn, args, result, drawn) ==
    /\ call' = [pc |-> "returned", fn |-> fn, args |-> args,
                result |-> result, drawn |-> drawn]
    /\ charts' = WriteFiles(result.files)
    /\ UNCHANGED <<pc, runNo, pipeline, target, lastCtor, i, report_data,
                   charts_dir, report_file, events, assembled, error>>
    /\ UNCHANGED <<heap, red, cli, df, nrun, app>>

CallUnivariate ==
    /\ call.pc = "ready"
    /\ \E params \in UnivariateParams :
          RecordCall("univariate", [params |-> params],
                  univariate_generate_plots(df, params), <<>>)

CallBivariate ==
    /\ call.pc = "ready"
    /\ \E params \in BivariateParamsSet, t \in ScenarioTargets :
          RecordCall("bivariate", [params |-> params, target_column |-> t],
                  bivariate_generate_plots(df, t, params),
                  IF TargetCentricFirst(df, t, params) = "plots"
                  THEN BivariateLoop(df, t) ELSE <<>>)

CallMultivariate ==
    /\ call.pc = "ready"
    /\ \E params \in MultivariateParams, drops \in BOOLEAN :
          RecordCall("multivariate", [params |-> params, drops |-> drops],
                  multivariate_generate_plots(df, params, drops), <<>>)

NextCalls ==
    \/ CallUnivariate
    \/ CallBivariate
    \/ CallMultivariate

SpecCalls == InitCalls /\ [][NextCalls]_vars

----------------------------------------------------------------------------
(* profiling.py: generate_profile called on its own.  A column of the      *)
(* dataset carries its values here when it is not numerical; of a          *)
(* numerical column only the number of rows is kept.                       *)

\* most columns of a profiled dataset
MaxProfCols == 2
\* most rows of a profiled dataset
MaxRows == 2
\* largest max_sparklines that is passed
MaxCap == 1

\* value_counts().nlargest(5)
TopN == 5

\* the values of a categorical cell, in sort order, and the missing value
CellValues == <<"A", "B">>
Cells == Range(CellValues) \cup {NaN}

\* the datasets that are profiled: up to MaxProfCols columns of the same
\* number of rows
ProfiledColumns(name, rows) ==
    {[name |-> name, dtype |-> "number", rows |-> rows]}
    \cup {[name |-> name, dtype |-> "object", rows |-> rows, values |-> v] :
             v \in [1..rows -> Cells]}

ProfiledDatasets ==
    UNION {{d \in [1..n -> UNION {ProfiledColumns(ColumnNames[k], rows) :
                                    k \in 1..n}] :
                \A k \in 1..n : d[k].name = ColumnNames[k]} :
           n \in 0..MaxProfCols, rows \in 0..MaxRows}

\* the statistics of a numerical column: mean, median, std, min and max
NumericalStats(c) == [of |-> c.name, keys |-> {"mean", "median", "std", "min", "max"}]

UnderCap_le(numeric_cols_count, max_sparklines) ==
    numeric_cols_count <= max_sparklines
\* numeric_cols_count < max_sparklines
UnderCap(numeric_cols_count, max_sparklines) ==
    numeric_cols_count < max_sparklines

unique_values_withnull(vals) == Cardinality(Range(vals))
\* col_series.nunique(): the values that are not missing
unique_values(vals) == Cardinality(NonNull(vals))

\* col_series.mode(): the most frequent values that are not missing
series_mode(vals) ==
    {v \in NonNull(vals) :
        \A u \in NonNull(vals) : CountOf(vals, v) >= CountOf(vals, u)}

\* col_series.mode().iloc[0] if not col_series.mode().empty else "N/A":
\* mode() is sorted, its first value is the least
top_value(vals) ==
    IF series_mode(vals) = {} THEN "N/A"
    ELSE CellValues[CHOOSE k \in DOMAIN CellValues :
                       /\ CellValues[k] \in series_mode(vals)
                       /\ \A j \in 1..(k - 1) : CellValues[j] \notin series_mode(vals)]

\* col_series.value_counts().nlargest(5).to_dict()
top_5(vals) ==
    LET T == CHOOSE S \in nlargest_index(NewSeries(vals, "object"), TopN) : TRUE
    IN [v \in T |-> CountOf(vals, v)]

\* top_5.max() if not top_5.empty else 0
top_5_max_count(counts) ==
    IF DOMAIN counts = {} THEN 0
    ELSE CHOOSE n \in Range(counts) : \A m \in Range(counts) : n >= m

\* the statistics of a column that is not numerical
CategoricalStats(c) ==
    [unique_values |-> unique_values(c.values),
     top_value |-> top_value(c.values),
     top_5_counts |-> top_5(c.values),
     top_5_max_count |-> top_5_max_count(top_5(c.values))]

\* the body of the loop of generate_profile for the column c, when
\* numeric_cols_count sparklines were made before it
column_profile(c, numeric_cols_count, max_sparklines) ==
    IF ProfilerKind(c) = "Numerical"
    THEN [name |-> c.name, type |-> "Numerical", stats |-> NumericalStats(c),
          sparkline_base64 |->
              IF UnderCap(numeric_cols_count, max_sparklines)
              THEN "sparkline" ELSE NoneStr]
    ELSE [name |-> c.name, type |-> "Categorical",
          stats |-> CategoricalStats(c)]

\* column_profiles after the loop of generate_profile(df, max_sparklines)
column_profiles(d, max_sparklines) ==
    LET Loop[k \in 0..Len(d)] ==
            IF k = 0 THEN [profiles |-> <<>>, numeric_cols_count |-> 0]
            ELSE LET p == column_profile(d[k], Loop[k - 1].numeric_cols_count,
                                         max_sparklines)
                 IN [profiles |-> Append(Loop[k - 1].profiles, p),
                     numeric_cols_count |->
                         IF "sparkline_base64" \in DOMAIN p
                            /\ p.sparkline_base64 # NoneStr
                         THEN Loop[k - 1].numeric_cols_count + 1
                         ELSE Loop[k - 1].numeric_cols_count]
    IN Loop[Len(d)].profiles

InitProfile ==
    /\ NoReducer
    /\ NoCli
    /\ df \in ProfiledDatasets
    /\ nrun = 0
    /\ call = [pc |-> "ready"]
    /\ NoApp
    /\ pc = "none"
    /\ runNo = 1
    /\ pipeline = <<>>
    /\ target = NoneStr
    /\ lastCtor = NoCtor
    /\ i = 0
    /\ report_data = <<>>
    /\ charts_dir = TRUE
    /\ charts = [f \in {} |-> 0]
    /\ report_file = 0
    /\ events = <<>>
    /\ assembled = <<>>
    /\ error = NoError

\* generate_profile(df, max_sparklines) is called and returns
CallProfile ==
    /\ call.pc = "ready"
    /\ \E max_sparklines \in 0..MaxCap :
          RecordCall("generate_profile", [max_sparklines |-> max_sparklines],
                     [raises |-> FALSE,
                      value |-> column_profiles(df, max_sparklines),
                      files |-> {}],
                     <<>>)

NextProfile ==
    \/ CallProfile

SpecProfile == InitProfile /\ [][NextProfile]_vars

----------------------------------------------------------------------------
(* app.py: the button "Run Analysis" of the web front end.  A dataset is   *)
(* loaded; the handler of the button runs down the script, one step at a   *)
(* time.                                                                   *)

\* the options of the selectbox: "None" and the columns of the dataset;
\* "None" becomes None
TargetOptions == {NoneStr} \cup ColumnsOf(TestDataset)

\* the four checkboxes
Checkboxes == [KindSet -> BOOLEAN]

\* the params each step passes to its renderer
AppUnivariateParams ==
    [plot_types |-> DefaultPlotTypes, max_categories |-> DefaultMaxCategories]
AppBivariateParams ==
    [target_centric |-> TRUE, max_categories |-> DefaultMaxCategories]
AppMultivariateParams == [correlation_cols |-> <<>>]

ExceptHandler_reraise(nextpc) == "raised"
\* `except Exception as e: st.error(...)`: the script goes on after the try
ExceptHandler(nextpc) == nextpc

\* the page shows the dataset and nothing has been run
InitApp ==
    /\ NoReducer
    /\ NoCli
    /\ NoCall
    /\ df = TestDataset
    /\ nrun = 0
    /\ app = [pc |-> "idle", run |-> [k \in KindSet |-> TRUE],
              target_variable |-> NoneStr,
              current_report_data |-> <<>>,
              report_data |-> None, analysis_complete |-> FALSE,
              log |-> <<>>]
    /\ pc = "none"
    /\ runNo = 1
    /\ pipeline = <<>>
    /\ target = NoneStr
    /\ lastCtor = NoCtor
    /\ i = 0
    /\ report_data = <<>>
    /\ charts_dir = FALSE
    /\ charts = [f \in {} |-> 0]
    /\ report_file = 0
    /\ events = <<>>
    /\ assembled = <<>>
    /\ error = NoError

AppUnchanged ==
    /\ UNCHANGED <<pc, runNo, pipeline, target, lastCtor, i, report_data,
                   events, assembled, error>>
    /\ UNCHANGED <<heap, red, cli, df, call>>

\* the button is pressed with some choice of the widgets: charts and report
\* of the run before are removed, current_report_data holds the title
RunAnalysis ==
    /\ app.pc = "idle"
    /\ nrun < MaxCalls
    /\ nrun' = nrun + 1
    /\ \E run \in Checkboxes, t \in TargetOptions :
          app' = [app EXCEPT !.pc = "profile", !.run = run,
                             !.target_variable = t,
                             !.current_report_data =
                                 [k \in {"title"} |-> ReportTitle],
                             !.log = <<>>]
    /\ charts_dir' = TRUE
    /\ charts' = [f \in {} |-> 0]
    /\ report_file' = 0
    /\ AppUnchanged

\* `try: ... current_report_data[key] = renderer(...)
\*  except Exception as e: st.error(...)`
\* the call does what the renderer does on the dataset, or the environment
\* raises an exception in it
TryStep(kind, result, nextpc) ==
    \E fails \in BOOLEAN :
      LET o == IF fails THEN Raises(<<>>) ELSE result
      IN
        /\ charts' = WriteFiles(o.files)
        /\ IF o.raises
           THEN app' = [app EXCEPT
                    !.pc = ExceptHandler(nextpc),
                    !.log = @ \o <<[ev |-> "call", kind |-> kind],
                                   [ev |-> "error", kind |-> kind]>>]
           ELSE app' = [app EXCEPT
                    !.pc = nextpc,
                    !.log = Append(@, [ev |-> "call", kind |-> kind]),
                    !.current_report_data = Put(@, KeyOf(kind), o.value)]

\* the checkbox of the step is off
NotSelected(nextpc) ==
    /\ app' = [app EXCEPT !.pc = nextpc]
    /\ UNCHANGED charts

AppProfile ==
    /\ app.pc = "profile"
    /\ IF app.run["profile"]
       THEN TryStep("profile", generate_profile(df), "univariate")
       ELSE NotSelected("univariate")
    /\ UNCHANGED <<nrun, charts_dir, report_file>>
    /\ AppUnchanged

AppUnivariate ==
    /\ app.pc = "univariate"
    /\ IF app.run["univariate"]
       THEN TryStep("univariate",
                    univariate_generate_plots(df, AppUnivariateParams),
                    "bivariate")
       ELSE NotSelected("bivariate")
    /\ UNCHANGED <<nrun, charts_dir, report_file>>
    /\ AppUnchanged

AppBivariate ==
    /\ app.pc = "bivariate"
    /\ IF ~app.run["bivariate"]
       THEN NotSelected("multivariate")
       ELSE IF ~Truthy(app.target_variable)
       THEN /\ app' = [app EXCEPT
                    !.pc = "multivariate",
                    !.log = Append(@, [ev |-> "skip", kind |-> "bivariate"])]
            /\ UNCHANGED charts
       ELSE TryStep("bivariate",
                    bivariate_generate_plots(df, app.target_variable,
                                             AppBivariateParams),
                    "multivariate")
    /\ UNCHANGED <<nrun, charts_dir, report_file>>
    /\ AppUnchanged

AppMultivariate ==
    /\ app.pc = "multivariate"
    /\ IF app.run["multivariate"]
       THEN \E drops \in BOOLEAN :
               TryStep("multivariate",
                       multivariate_generate_plots(df, AppMultivariateParams,
                                                   drops),
                       "report")
       ELSE NotSelected("report")
    /\ UNCHANGED <<nrun, charts_dir, report_file>>
    /\ AppUnchanged

\* the session state is updated, then create_report and make_archive are
\* tried: they return, or one of them raises and st.error shows it
AppReport ==
    /\ app.pc = "report"
    /\ \E raises \in BOOLEAN :
          /\ app' = [app EXCEPT
                 !.pc = "idle",
                 !.report_data = app.current_report_data,
                 !.analysis_complete = TRUE,
                 !.log = @ \o (IF raises
                               THEN <<[ev |-> "call", kind |-> "report"],
                                      [ev |-> "error", kind |-> "report"]>>
                               ELSE <<[ev |-> "call", kind |-> "report"]>>)]
          /\ report_file' = IF raises THEN report_file ELSE runNo
    /\ UNCHANGED <<nrun, charts_dir, charts>>
    /\ AppUnchanged

NextApp ==
    \/ RunAnalysis
    \/ AppProfile
    \/ AppUnivariate
    \/ AppBivariate
    \/ AppMultivariate
    \/ AppReport

SpecApp == InitApp /\ [][NextApp]_vars

----------------------------------------------------------------------------
(* main.py: the command `run`.  cli is the invocation: its options, where  *)
(* it stands, the exception that left the `try` block, and the exit code   *)
(* once the process has ended.                                             *)

\* the code of typer.Exit() and of a process that ends normally
ExitSuccess == 0
\* the code of typer.Exit(code=1) and of an uncaught exception
ExitFailure == 1

Modes == {"file", "interactive"}

\* the process ends with `code`
ExitWith(code) == [cli EXCEPT !.pc = "exited", !.exit = <<code>>]

\* `finally:` of run(): with --profile the statistics are printed and
\* dumped to dora_profile.prof, and an exception of the dump replaces
\* whatever was on its way out
Finally(code, dump_ok) ==
    IF cli.profile /\ ~dump_ok THEN ExitFailure ELSE code

\* `except FileNotFoundError` and `except Exception`: both log the error
\* and raise typer.Exit(code=1).  typer.Exit is itself an Exception, so the
\* one raised inside `try` takes the second handler.
Handler_pass(exception) ==
    CASE exception = "FileNotFoundError" -> ExitFailure
      [] OTHER -> ExitSuccess
Handler(exception) ==
    CASE exception = "FileNotFoundError" -> ExitFailure
      [] OTHER -> ExitFailure

\* an exception leaves the `try` block of run()
Fail(exception, dump_ok) ==
    cli' = [ExitWith(Finally(Handler(exception), dump_ok))
                EXCEPT !.raised = exception]

\* the dora command is invoked
InitCli ==
    /\ NoReducer
    /\ NoData
    /\ NoCall
    /\ NoApp
    /\ \E mode \in Modes, version \in BOOLEAN, profile \in BOOLEAN :
          cli = [pc |-> "invoked", mode |-> mode, version |-> version,
                 profile |-> profile, raised |-> NoError, exit |-> <<>>]
    /\ pc = "none"
    /\ runNo = 1
    /\ pipeline = <<>>
    /\ target = NoneStr
    /\ lastCtor = NoCtor
    /\ i = 0
    /\ report_data = <<>>
    /\ charts_dir = FALSE
    /\ charts = [f \in {} |-> 0]
    /\ report_file = 0
    /\ events = <<>>
    /\ assembled = <<>>
    /\ error = NoError

\* version_callback, eager: with --version the version is printed and
\* typer.Exit() raised before run() is entered; metadata.version raises
\* when the package is not installed
version_callback ==
    /\ cli.pc = "invoked"
    /\ cli.version
    /\ \E installed \in BOOLEAN :
          cli' = ExitWith(IF installed THEN ExitSuccess ELSE ExitFailure)
    /\ UNCHANGED <<coreVars, heap, red, df, nrun, call, app>>

\* what the file-mode branch meets up to load_config
ConfigOutcomes == {"ok", "Exit", "ValueError"}

\* file mode, up to `config = load_config(config_path)`: typer.Exit(code=1)
\* for a path that does not exist, ValueError for a file that Config does
\* not accept, else a Config, whose target_variable is any string or None
FileMode ==
    /\ cli.pc = "invoked"
    /\ ~cli.version
    /\ cli.mode = "file"
    /\ \E outcome \in ConfigOutcomes, dump_ok \in BOOLEAN :
          IF outcome = "ok"
          THEN /\ pipeline' \in ScenarioPipelines
               /\ target' \in ScenarioTargets
               /\ cli' = [cli EXCEPT !.pc = "config"]
          ELSE /\ Fail(outcome, dump_ok)
               /\ UNCHANGED <<pipeline, target>>
    /\ UNCHANGED <<pc, runNo, lastCtor, i, report_data, charts_dir, charts,
                   report_file, events, assembled, error>>
    /\ UNCHANGED <<heap, red, df, nrun, call, app>>

\* what becomes of the input file: it is read, it does not exist, or
\* read_data raises (ValueError for an unsupported extension, or what the
\* pandas reader raised)
DataOutcomes == {"ok", "FileNotFoundError", "ValueError", "ParserError"}

\* file mode, the input file: FileNotFoundError when it does not exist,
\* else df = read_data(config.input_file)
ReadData ==
    /\ cli.pc = "config"
    /\ \E outcome \in DataOutcomes, dump_ok \in BOOLEAN :
          IF outcome = "ok"
          THEN /\ df' \in Datasets
               /\ cli' = [cli EXCEPT !.pc = "ready"]
          ELSE /\ Fail(outcome, dump_ok)
               /\ UNCHANGED df
    /\ UNCHANGED <<coreVars, heap, red, nrun, call, app>>

\* `if not target_variable or target_variable not in df.columns:
\*      target_variable = None`
ValidTarget_any(d, t) == IF ~Truthy(t) THEN NoneStr ELSE t
ValidTarget(d, t) == IF ~Truthy(t) \/ t \notin ColumnsOf(d) THEN NoneStr ELSE t

\* the pipeline of the wizard: a step for every question answered with yes,
\* the bivariate question being asked only with a target
WizardPipeline(t, p, u, b, m) ==
    (IF p THEN <<AnalysisStep(ProfileStep(TRUE).value, None, None, None).value>>
     ELSE <<>>)
    \o (IF u
        THEN <<AnalysisStep(None,
                            UnivariateStep(TRUE, DefaultMaxCategories).value,
                            None, None).value>>
        ELSE <<>>)
    \o (IF Truthy(t) /\ b
        THEN <<AnalysisStep(None, None,
                            BivariateStep(TRUE, TRUE, DefaultMaxCategories).value,
                            None).value>>
        ELSE <<>>)
    \o (IF m
        THEN <<AnalysisStep(None, None, None, MultivariateStep(TRUE).value).value>>
        ELSE <<>>)

\* interactive mode: create_config_interactively asks for a file until one
\* is read, then for the target and the steps; the configuration may be
\* saved to config.yaml.  A prompt that is aborted and a config.yaml that
\* cannot be written raise.
InteractiveMode ==
    /\ cli.pc = "invoked"
    /\ ~cli.version
    /\ cli.mode = "interactive"
    /\ \E outcome \in {"ok", "Abort", "IOError"}, dump_ok \in BOOLEAN :
          IF outcome = "ok"
          THEN /\ \E d \in Datasets, t \in ScenarioTargets \cup {""},
                     p \in BOOLEAN, u \in BOOLEAN, b \in BOOLEAN, m \in BOOLEAN :
                     /\ df' = d
                     /\ target' = ValidTarget(d, t)
                     /\ pipeline' = WizardPipeline(ValidTarget(d, t), p, u, b, m)
               /\ cli' = [cli EXCEPT !.pc = "ready"]
          ELSE /\ Fail(outcome, dump_ok)
               /\ UNCHANGED <<df, target, pipeline>>
    /\ UNCHANGED <<pc, runNo, lastCtor, i, report_data, charts_dir, charts,
                   report_file, events, assembled, error>>
    /\ UNCHANGED <<heap, red, nrun, call, app>>

\* `analyzer = Analyzer(df, config)`: os.makedirs creates charts_dir or
\* raises
NewAnalyzer ==
    /\ cli.pc = "ready"
    /\ \E outcome \in {"ok", "OSError"}, dump_ok \in BOOLEAN :
          IF outcome = "ok"
          THEN /\ report_data' = [k \in {"title"} |-> ReportTitle]
               /\ charts_dir' = TRUE
               /\ pc' = "idle"
               /\ cli' = [cli EXCEPT !.pc = "running"]
          ELSE /\ Fail(outcome, dump_ok)
               /\ UNCHANGED <<report_data, charts_dir, pc>>
    /\ UNCHANGED <<runNo, pipeline, target, lastCtor, i, charts, report_file,
                   events, assembled, error>>
    /\ UNCHANGED <<heap, red, df, nrun, call, app>>

\* analyzer.run() has returned or raised: run() of main.py ends
Exit ==
    /\ cli.pc = "running"
    /\ pc \in {"done", "failed"}
    /\ \E dump_ok \in BOOLEAN :
          IF pc = "done"
          THEN cli' = ExitWith(Finally(ExitSuccess, dump_ok))
          ELSE Fail(error, dump_ok)
    /\ UNCHANGED <<coreVars, heap, red, df, nrun, call, app>>

NextCli ==
    \/ version_callback
    \/ FileMode
    \/ ReadData
    \/ InteractiveMode
    \/ NewAnalyzer
    \/ Run
    \/ IfProfileOn
    \/ IfUnivariateOn
    \/ IfBivariateOn
    \/ IfMultivariateOn
    \/ _generate_report
    \/ Exit

SpecCli == InitCli /\ [][NextCli]_vars

----------------------------------------------------------------------------
(* Properties of a run on a dataset.                                       *)

\* the bivariate entry of the pipeline
BivariateParams == pipeline[3].bivariate
\* the names of the charts in charts_dir that `renderer` wrote
ChartsOf(renderer) == {f \in DOMAIN charts : f[1] = renderer}
\* the report files in the output directory
ReportFiles == IF report_file = 0 THEN {} ELSE {"eda_report.html"}
\* has the renderer of `kind` been called in some run()
Called(kind) == \E k \in DOMAIN events : events[k] = [ev |-> "call", kind |-> kind, step |-> KindIdx(kind)]

\* profile, univariate, bivariate (target-centric) and multivariate are
\* enabled, the target is a numerical column and the dataset has at least
\* two numerical columns
FullPipeline ==
    /\ \A j \in DOMAIN pipeline : IsEnabled(pipeline[j], Kinds[j])
    /\ BivariateParams.target_centric
    /\ target \in ColumnsOf(df)
    /\ is_numeric_dtype(Column(df, target))
    /\ Len(numerical_columns(df)) >= 2

(* C18: a full pipeline on such a dataset never fails, and whenever a call *)
(* of run() has returned, the first or a later one, ReportData holds the   *)
(* four step keys, charts_dir exists and holds the correlation matrix, and *)
(* the output directory holds exactly one report file.                     *)
C18_FullPipelineCompletes ==
    FullPipeline =>
        /\ pc # "failed"
        /\ pc = "done" =>
              /\ StepKeys \subseteq DOMAIN report_data
              /\ charts_dir
              /\ CorrelationMatrix \in DOMAIN charts
              /\ report_data["multivariate_plots"] = <<CorrelationMatrix>>
              /\ Cardinality(ReportFiles) = 1

C18_Witness ==
    /\ FullPipeline
    /\ pc = "done"
    /\ nrun = MaxCalls
    /\ Len(assembled) = MaxCalls
    /\ Len(numerical_columns(df)) = 2
    /\ ChartsOf("bivariate") # {}
    /\ CorrelationMatrix \in DOMAIN charts

(* C20: with target_centric false the bivariate renderer returns the empty *)
(* list and writes nothing, for every dataset and every target, none       *)
(* included: the step never fails, its key holds the empty list once the   *)
(* renderer was called, and charts_dir holds no bivariate chart.           *)
C20_NotTargetCentricIsEmpty ==
    (BivariateGuard(pipeline[3]) /\ ~BivariateParams.target_centric) =>
        /\ bivariate_generate_plots(df, target, BivariateParams) = Returns(<<>>)
        /\ ~(pc = "failed" /\ error = "bivariate")
        /\ Called("bivariate") =>
              /\ "bivariate_plots" \in DOMAIN report_data
              /\ report_data["bivariate_plots"] = <<>>
        /\ ChartsOf("bivariate") = {}

C20_Witness ==
    /\ BivariateGuard(pipeline[3])
    /\ ~BivariateParams.target_centric
    /\ target = NoneStr
    /\ Called("bivariate")
    /\ pc = "done"
    /\ report_data["bivariate_plots"] = <<>>
    /\ ChartsOf("univariate") # {}
    /\ ChartsOf("bivariate") = {}

----------------------------------------------------------------------------
(* Properties of the command.                                              *)

\* analyzer.run() has been entered
Executing == cli.pc \in {"running", "exited"} /\ pc \notin {"none", "idle"}
\* the process has ended with `code`
ExitedWith(code) == cli.pc = "exited" /\ cli.exit = <<code>>

(* C11: whenever run() executes with a target set, the target is a column  *)
(* of the dataset: a configuration whose target is no column never gets as *)
(* far as a step.                                                          *)
C11_TargetIsColumn ==
    (Executing /\ Truthy(target)) => target \in ColumnsOf(df)

(* C19, as stated: the process ends with 1 when an exception left the try  *)
(* block or run() of the Analyzer raised, and with 0 only when the         *)
(* pipeline ran to completion.                                             *)
C19_ExitCodes ==
    cli.pc = "exited" =>
        /\ (cli.raised # NoError \/ pc = "failed") => cli.exit = <<ExitFailure>>
        /\ cli.exit = <<ExitSuccess>> => pc = "done"

(* C19, amended: as above, but the process also ends with 0 when --version *)
(* was given, which prints the version before the command is entered.      *)
C19_ExitCodesOrVersion ==
    cli.pc = "exited" =>
        /\ (cli.raised # NoError \/ pc = "failed") => cli.exit = <<ExitFailure>>
        /\ cli.exit = <<ExitSuccess>> =>
              \/ pc = "done" /\ cli.raised = NoError /\ ~cli.version
              \/ cli.version /\ pc = "none"

C19_Witness ==
    /\ ExitedWith(ExitFailure)
    /\ cli.mode = "file"
    /\ pc = "failed"
    /\ error = "bivariate"
    /\ cli.raised = "bivariate"
    /\ "profile" \in DOMAIN report_data

----------------------------------------------------------------------------
(* Properties of the renderers called on their own.                        *)

\* the call that was made is one of fn
CallOf(fn) == call.pc = "returned" /\ call.fn = fn
\* the artifacts the call returned
Artifacts == call.result.value
\* where the column `name` stands in the dataset
PosOf(name) == CHOOSE k \in DOMAIN df : df[k].name = name
\* how often the artifact a is in the list returned
Times(a) == Cardinality({k \in DOMAIN Artifacts : Artifacts[k] = a})

(* C21: target-centric, with a target that is a column: a numerical target *)
(* gives exactly one artifact for every other column and none for the      *)
(* target itself, drawn as a scatter plot for a numerical feature and as a *)
(* box plot of the reduced feature for any other; another target gives no  *)
(* artifact and no error.                                                  *)
C21_OneArtifactPerFeature ==
    (/\ CallOf("bivariate")
     /\ call.args.params.target_centric
     /\ call.args.target_column \in ColumnsOf(df)) =>
        LET t == call.args.target_column
            others == ColumnsOf(df) \ {t}
            drawn == call.drawn
        IN /\ ~call.result.raises
           /\ Len(drawn) = Cardinality(others)
           /\ \A f \in others :
                 Cardinality({k \in DOMAIN drawn : drawn[k].feature = f}) = 1
           /\ \A k \in DOMAIN Artifacts : Artifacts[k][2] # t
           /\ IF Column(df, t).dtype \in {"number", "bool"}
              THEN /\ Len(Artifacts) = Cardinality(others)
                   /\ \A f \in others : Times(ChartName("bivariate", f, t)) = 1
                   /\ \A k \in DOMAIN drawn :
                         drawn[k].plot =
                             IF Column(df, drawn[k].feature).dtype
                                    \in {"number", "bool"}
                             THEN "scatterplot" ELSE "boxplot"
              ELSE /\ Artifacts = <<>>
                   /\ call.result.files = {}
                   /\ \A k \in DOMAIN drawn : drawn[k].plot = "none"

C21_Witness ==
    /\ CallOf("bivariate")
    /\ call.args.params.target_centric
    /\ call.args.target_column = "charges"
    /\ Len(df) = 3
    /\ Column(df, "charges").dtype = "number"
    /\ Column(df, "age").dtype = "number"
    /\ Column(df, "sex").dtype = "object"
    /\ Artifacts = <<ChartName("bivariate", "age", "charges"),
                     ChartName("bivariate", "sex", "charges")>>

\* the number of columns the multivariate call selects
SelectedCount ==
    LET cols == call.args.params.correlation_cols
    IN IF cols # <<>> THEN Len(cols) ELSE Len(numerical_columns(df))

(* C22, as stated: the explicit list when it is not empty, else the        *)
(* numerical columns; the empty list and no error with fewer than two      *)
(* columns selected, exactly the heat map otherwise.                       *)
C22_HeatmapIffTwoSelected ==
    CallOf("multivariate") =>
        call.result = IF SelectedCount < 2
                      THEN Returns(<<>>) ELSE Returns(<<CorrelationMatrix>>)

(* C22, amended: the same for a list whose names are all columns and, when *)
(* two or more are selected, are all numerical; a name that is no column   *)
(* makes the call raise, whatever the number of names.                     *)
C22_HeatmapIffTwoNumericalSelected ==
    CallOf("multivariate") =>
        LET cols == call.args.params.correlation_cols
        IN IF ~(Range(cols) \subseteq ColumnsOf(df))
           THEN call.result.raises /\ call.result.files = {}
           ELSE IF SelectedCount < 2
           THEN call.result = Returns(<<>>)
           ELSE (\A k \in DOMAIN cols :
                     Column(df, cols[k]).dtype \in {"number", "bool"})
                    => call.result = Returns(<<CorrelationMatrix>>)

C22_Witness ==
    /\ CallOf("multivariate")
    /\ call.args.params.correlation_cols = <<"age", "charges">>
    /\ Len(numerical_columns(df)) = 3
    /\ call.result = Returns(<<CorrelationMatrix>>)
    /\ CorrelationMatrix \in DOMAIN charts

(* C23: every column has the same kind for the profiler, the univariate,   *)
(* the bivariate and the multivariate renderer: numerical for all of them, *)
(* or categorical for all that know the kind and numerical for none.       *)
C23_SameKindEverywhere ==
    \A k \in DOMAIN df :
        /\ ProfilerKind(df[k]) = UnivariateKind(df[k])
        /\ ProfilerKind(df[k]) = BivariateKind(df[k])
        /\ (ProfilerKind(df[k]) = "Numerical")
               <=> (MultivariateKind(df[k]) = "Numerical")

\* the plot types univariate.generate_plots knows
KnownPlotTypes == {"histogram", "boxplot", "barplot"}

(* C24: a univariate call raises nothing because of a plot-type name it    *)
(* does not know, and no artifact it returns and no file it writes bears   *)
(* such a name.                                                            *)
C24_UnknownPlotTypeIgnored ==
    CallOf("univariate") =>
        /\ ~call.result.raises
        /\ \A k \in DOMAIN Artifacts : Artifacts[k][3] \in KnownPlotTypes
        /\ \A f \in DOMAIN charts : f[3] \in KnownPlotTypes

\* the numerical plot types of the call, in the order of params
TypesOfCall ==
    Get(Get(call.args.params, "plot_types", <<>>), "numerical", <<>>)
\* within one numerical column the artifacts follow the plot types of params
TypesInOrder ==
    \A k, l \in DOMAIN Artifacts :
        (k < l /\ Artifacts[k][2] = Artifacts[l][2]) =>
            \E m, n \in DOMAIN TypesOfCall :
                /\ m < n
                /\ TypesOfCall[m] = Artifacts[k][3]
                /\ TypesOfCall[n] = Artifacts[l][3]

(* C25, as stated: the artifacts of a column come before those of every    *)
(* later column of the dataset, and within a numerical column they follow  *)
(* the plot types of params.                                               *)
C25_DatasetColumnOrder ==
    CallOf("univariate") =>
        /\ \A k, l \in DOMAIN Artifacts :
              k < l => PosOf(Artifacts[k][2]) <= PosOf(Artifacts[l][2])
        /\ TypesInOrder

(* C25, amended: the artifacts of the numerical columns come first, those  *)
(* of the categorical columns after them, each group in dataset column     *)
(* order, and within a numerical column they follow the plot types.        *)
C25_NumericalThenCategoricalOrder ==
    CallOf("univariate") =>
        /\ \A k, l \in DOMAIN Artifacts :
              k < l =>
                 LET a == df[PosOf(Artifacts[k][2])]
                     b == df[PosOf(Artifacts[l][2])]
                 IN \/ a.dtype = "number" /\ b.dtype = "object"
                    \/ a.dtype = b.dtype /\ PosOf(a.name) <= PosOf(b.name)
        /\ TypesInOrder

C25_Witness ==
    /\ CallOf("univariate")
    /\ Len(df) = 3
    /\ df[1].dtype = "object"
    /\ df[2].dtype = "number"
    /\ df[3].dtype = "number"
    /\ TypesOfCall = <<"boxplot", "histogram">>
    /\ Len(Artifacts) = 4
    /\ Artifacts[1] = ChartName("univariate", df[2].name, "boxplot")

----------------------------------------------------------------------------
(* The reducer and missing values.                                         *)

\* the positions of a column that hold the missing value
NullPositions(vals) == {n \in DOMAIN vals : vals[n] = NaN}

(* C28: missing values do not count toward the number of distinct values   *)
(* that decides truncation; a truncation puts "Other" at every missing     *)
(* position, and a call without truncation returns the missing positions   *)
(* as they were.                                                           *)
C28_NullsNotCountedThenOther ==
    \A c \in Returned :
        /\ c.truncated <=> Cardinality(NonNull(In(c))) > red.max_categories
        /\ Len(Out(c)) = Len(In(c))
        /\ \A n \in NullPositions(In(c)) :
              Out(c)[n] = IF c.truncated THEN Other ELSE NaN

C28_Witness ==
    \E c \in Returned :
        /\ c.truncated
        /\ red.max_categories = 2
        /\ In(c) = <<"A", NaN, "B", "C">>
        /\ Out(c)[2] = Other

\* a column whose missing value would make the count exceed the limit is
\* returned without truncation
C28_WitnessKept ==
    \E c \in Returned :
        /\ ~c.truncated
        /\ red.max_categories = 2
        /\ In(c) = <<"A", NaN, "B">>
        /\ Out(c) = In(c)

----------------------------------------------------------------------------
(* Properties of the profiler.                                             *)

\* the entries of the profile that hold a sparkline
WithSparkline ==
    {k \in DOMAIN Artifacts :
        /\ "sparkline_base64" \in DOMAIN Artifacts[k]
        /\ Artifacts[k].sparkline_base64 # NoneStr}
\* the numerical columns before the column k
NumericalBefore(k) == {j \in 1..(k - 1) : df[j].dtype = "number"}
\* one entry for every column, in column order
EntryPerColumn ==
    /\ Len(Artifacts) = Len(df)
    /\ \A k \in DOMAIN df : Artifacts[k].name = df[k].name

(* C26: with the cap N the profile holds a sparkline for at most N         *)
(* columns; a numerical column that comes after N numerical columns has an *)
(* entry with its full statistics and a null sparkline, and the call does  *)
(* not raise.                                                              *)
C26_SparklineCap ==
    CallOf("generate_profile") =>
        /\ ~call.result.raises
        /\ EntryPerColumn
        /\ Cardinality(WithSparkline) <= call.args.max_sparklines
        /\ \A k \in DOMAIN df :
              (/\ df[k].dtype = "number"
               /\ Cardinality(NumericalBefore(k)) >= call.args.max_sparklines)
                  => /\ Artifacts[k].sparkline_base64 = NoneStr
                     /\ Artifacts[k].type = "Numerical"
                     /\ Artifacts[k].stats = NumericalStats(df[k])

C26_Witness ==
    /\ CallOf("generate_profile")
    /\ call.args.max_sparklines = 1
    /\ Len(df) = 2
    /\ df[1].dtype = "number"
    /\ df[2].dtype = "number"
    /\ Artifacts[1].sparkline_base64 = "sparkline"
    /\ Artifacts[2].sparkline_base64 = NoneStr

(* C27: a categorical column without a value that is not missing, the      *)
(* column of no rows included, has the entry with top value "N/A", 0       *)
(* unique values, an empty top-5 table and 0 as its maximum; the call does *)
(* not raise and returns an entry for every column in column order.        *)
C27_EmptyCategoricalSentinel ==
    CallOf("generate_profile") =>
        /\ ~call.result.raises
        /\ EntryPerColumn
        /\ \A k \in DOMAIN df :
              (df[k].dtype = "object" /\ NonNull(df[k].values) = {}) =>
                  /\ Artifacts[k].type = "Categorical"
                  /\ Artifacts[k].stats.top_value = "N/A"
                  /\ Artifacts[k].stats.unique_values = 0
                  /\ DOMAIN Artifacts[k].stats.top_5_counts = {}
                  /\ Artifacts[k].stats.top_5_max_count = 0

C27_Witness ==
    /\ CallOf("generate_profile")
    /\ Len(df) = 2
    /\ df[1].dtype = "object"
    /\ df[1].values = <<NaN, NaN>>
    /\ df[2].dtype = "object"
    /\ df[2].values = <<"B", "A">>
    /\ Artifacts[1].stats.top_value = "N/A"
    /\ Artifacts[2].stats.top_value = "A"
    /\ Artifacts[2].stats.top_5_max_count = 1

----------------------------------------------------------------------------
(* Properties of pipelines that hold a kind more than once.                *)

\* the condition of the `if` of the loop body for the kind
GuardOf(kind, step) ==
    CASE kind = "profile" -> ProfileGuard(step)
      [] kind = "univariate" -> UnivariateGuard(step)
      [] kind = "bivariate" -> BivariateGuard(step)
      [] kind = "multivariate" -> MultivariateGuard(step)

\* the positions of the list that satisfy P, in list order
Positions(P(_)) ==
    LET Upto[k \in 0..Len(pipeline)] ==
            IF k = 0 THEN <<>>
            ELSE IF P(k) THEN Append(Upto[k - 1], k) ELSE Upto[k - 1]
    IN Upto[Len(pipeline)]

\* the enabled occurrences of the kind
Occurrences(kind) == Positions(LAMBDA k : GuardOf(kind, pipeline[k]))
\* those of them that reach the renderer: a target-centric bivariate step
\* without a target does not
Rendered(kind) ==
    Positions(LAMBDA k :
        /\ GuardOf(kind, pipeline[k])
        /\ kind = "bivariate" => ~MissingTarget(pipeline[k].bivariate, target))

\* the steps for which the renderer of the kind was called, in call order
CallSteps(kind) ==
    LET calls == SelectSeq(events,
                     LAMBDA e : e.ev = "call" /\ e.kind = kind)
    IN [k \in DOMAIN calls |-> calls[k].step]

\* the sequence q taken n times
Times_seq(q, n) == [k \in 1..(n * Len(q)) |-> q[((k - 1) % Len(q)) + 1]]

\* what the renderer of the kind returns for the step at position k
PayloadAt(kind, k) ==
    CASE kind = "profile" -> generate_profile(df).value
      [] kind = "univariate" ->
            univariate_generate_plots(
                df, model_dump(pipeline[k].univariate)).value
      [] kind = "bivariate" ->
            bivariate_generate_plots(
                df, target, model_dump(pipeline[k].bivariate)).value
      [] kind = "multivariate" ->
            multivariate_generate_plots(
                df, model_dump(pipeline[k].multivariate), TRUE).value

ReportDataKeys ==
    {"title", "profile", "univariate_plots", "bivariate_plots",
     "multivariate_plots", "generation_time"}

\* after nrun calls of run() the renderer of the kind was called once for
\* each position of occ per run, in list order, and the key of the kind
\* holds the payload of the last of them
OncePerOccurrence(kind, occ) ==
    /\ CallSteps(kind) = Times_seq(occ, nrun)
    /\ occ # <<>> =>
          /\ KeyOf(kind) \in DOMAIN report_data
          /\ report_data[KeyOf(kind)] = PayloadAt(kind, occ[Len(occ)])

(* C29, as stated: when run() has returned, the renderer of every kind     *)
(* that is enabled at several steps was called once per enabled occurrence *)
(* in list order, the kind's key holds                                     *)
(* the payload of the last enabled occurrence, and the keys of ReportData  *)
(* are among title, profile, the three plot keys and generation_time.      *)
C29_LastOccurrenceWins ==
    /\ DOMAIN report_data \subseteq ReportDataKeys
    /\ pc = "done" =>
          \A kind \in KindSet :
              Len(Occurrences(kind)) >= 2 =>
                  OncePerOccurrence(kind, Occurrences(kind))

(* C29, amended: the same of the enabled occurrences that reach the        *)
(* renderer, which a target-centric bivariate step does not when no target *)
(* is set.                                                                 *)
C29_LastRenderedOccurrenceWins ==
    /\ DOMAIN report_data \subseteq ReportDataKeys
    /\ pc = "done" =>
          \A kind \in KindSet : OncePerOccurrence(kind, Rendered(kind))

C29_Witness ==
    /\ pc = "done"
    /\ Len(pipeline) = 2
    /\ Occurrences("univariate") = <<1, 2>>
    /\ PayloadAt("univariate", 1) # PayloadAt("univariate", 2)
    /\ CallSteps("univariate") = <<1, 2>>
    /\ report_data["univariate_plots"] = PayloadAt("univariate", 2)

----------------------------------------------------------------------------
(* Properties of the web front end.                                        *)

\* how far down the script the handler is; it has left it at 6
AppPos ==
    CASE app.pc = "profile" -> 1
      [] app.pc = "univariate" -> 2
      [] app.pc = "bivariate" -> 3
      [] app.pc = "multivariate" -> 4
      [] app.pc = "report" -> 5
      [] OTHER -> 6
PosOfKind(kind) == CHOOSE k \in 1..4 : Kinds[k] = kind
Logged(ev, kind) ==
    \E k \in DOMAIN app.log : app.log[k] = [ev |-> ev, kind |-> kind]
\* the step is selected and is not the bivariate step without a target
Due(kind) ==
    /\ app.run[kind]
    /\ kind = "bivariate" => Truthy(app.target_variable)

(* C30: once the button was pressed, every selected step that the script   *)
(* has passed was run, whatever the steps before it did, except bivariate  *)
(* without a target, which is not run; the key of a step is in the report  *)
(* data exactly when the step was run and did not raise; and when the      *)
(* handler has ended report generation was attempted once, the analysis is *)
(* marked complete and the session holds the report data, whether report   *)
(* generation failed or not.                                               *)
C30_StepsInOwnErrorBoundary ==
    (app.pc # "none" /\ nrun > 0) =>
        /\ \A kind \in KindSet :
              AppPos > PosOfKind(kind) =>
                  /\ Logged("call", kind) <=> Due(kind)
                  /\ KeyOf(kind) \in DOMAIN app.current_report_data
                        <=> (Due(kind) /\ ~Logged("error", kind))
        /\ AppPos = 6 =>
              /\ Logged("call", "report")
              /\ app.analysis_complete
              /\ app.report_data = app.current_report_data

C30_Witness ==
    /\ app.pc = "idle"
    /\ nrun > 0
    /\ \A kind \in KindSet : app.run[kind]
    /\ app.target_variable = NoneStr
    /\ Logged("error", "profile")
    /\ Logged("error", "report")
    /\ Logged("call", "univariate")
    /\ Logged("call", "multivariate")
    /\ ~Logged("call", "bivariate")
    /\ DOMAIN app.report_data = {"title", "univariate_plots", "multivariate_plots"}
    /\ app.analysis_complete
====
